---- MODULE Spec2Model ----
(***************************************************************************)
(* A model of the request builder of package sling (requests.go,           *)
(* options.go, package_functions.go).                                      *)
(*                                                                         *)
(* Strings are sequences of one-character strings, so that parsing,        *)
(* escaping and reference resolution are computed on characters.  Slices   *)
(* are (array, length) pairs into a heap of backing arrays with a          *)
(* capacity, as the Go runtime lays them out: append writes in place       *)
(* while the capacity allows and reallocates otherwise.                    *)
(***************************************************************************)
EXTENDS Integers, Sequences, FiniteSets, TLC

\* ------------------------------------------------------------------------
\* strings
\* ------------------------------------------------------------------------

\* strings.Index for a single byte: the first position of c in s, 0 if none
RECURSIVE IndexFrom(_, _, _)
IndexFrom(s, c, i) ==
    IF i > Len(s) THEN 0
    ELSE IF s[i] = c THEN i
    ELSE IndexFrom(s, c, i + 1)

IndexByte(s, c) == IndexFrom(s, c, 1)

\* strings.LastIndex for a single byte, 0 if none
RECURSIVE LastIndexFrom(_, _, _)
LastIndexFrom(s, c, i) ==
    IF i < 1 THEN 0
    ELSE IF s[i] = c THEN i
    ELSE LastIndexFrom(s, c, i - 1)

LastIndexByte(s, c) == LastIndexFrom(s, c, Len(s))

Contains(s, c) == IndexByte(s, c) # 0

Count(s, c) == Cardinality({i \in 1..Len(s) : s[i] = c})

HasPrefix(s, p) == Len(s) >= Len(p) /\ SubSeq(s, 1, Len(p)) = p

HasSuffix(s, p) == Len(s) >= Len(p) /\ SubSeq(s, Len(s) - Len(p) + 1, Len(s)) = p

\* strings.Cut(s, c)
Cut(s, c) ==
    LET i == IndexByte(s, c) IN
    IF i = 0 THEN [before |-> s, after |-> <<>>, found |-> FALSE]
    ELSE [before |-> SubSeq(s, 1, i - 1), after |-> SubSeq(s, i + 1, Len(s)),
          found |-> TRUE]

\* the element of a one-element set; with { e(a) : a \in {d} } it names the
\* value d once, as a local variable of the code does
The(S) == CHOOSE e \in S : TRUE

RECURSIVE Flatten(_)
Flatten(ss) == IF ss = <<>> THEN <<>> ELSE Head(ss) \o Flatten(Tail(ss))

\* the characters of the model's strings
Letters == {"a", "b"}
Digits == {"1", "2"}

\* the byte values of the characters whose order or encoding the model needs
CharCode(c) ==
    CASE c = "1" -> 49 [] c = "2" -> 50 [] c = ":" -> 58 [] c = "A" -> 65
      [] c = "B" -> 66 [] c = "a" -> 97 [] c = "b" -> 98 [] c = "t" -> 116
      [] OTHER -> 0

\* ------------------------------------------------------------------------
\* net/url, as called from options.go and requests.go
\* ------------------------------------------------------------------------

NilURL ==
    [nil |-> TRUE, Scheme |-> <<>>, Opaque |-> <<>>, Host |-> <<>>,
     Path |-> <<>>, OmitHost |-> FALSE, ForceQuery |-> FALSE,
     RawQuery |-> <<>>, Fragment |-> <<>>]

EmptyURL == [NilURL EXCEPT !.nil = FALSE]

\* url.shouldEscape / url.escape, by mode, one byte at a time
EscapeByte(c, mode) ==
    IF c \in Letters \cup Digits \cup {".", "-", "_"} THEN <<c>>
    ELSE IF mode = "path" THEN
        (IF c \in {"/", ":", "&", "="} THEN <<c>>
         ELSE IF c = "?" THEN <<"%", "3", "F">>
         ELSE IF c = "#" THEN <<"%", "2", "3">>
         ELSE <<"%", "2", "0">>)
    ELSE IF mode = "fragment" THEN
        (IF c \in {"/", ":", "&", "=", "?"} THEN <<c>>
         ELSE IF c = "#" THEN <<"%", "2", "3">>
         ELSE <<"%", "2", "0">>)
    ELSE \* "query": url.QueryEscape
        (IF c = " " THEN <<"+">>
         ELSE IF c = "/" THEN <<"%", "2", "F">>
         ELSE IF c = ":" THEN <<"%", "3", "A">>
         ELSE IF c = "&" THEN <<"%", "2", "6">>
         ELSE IF c = "=" THEN <<"%", "3", "D">>
         ELSE IF c = "?" THEN <<"%", "3", "F">>
         ELSE <<"%", "2", "3">>)

Escape(s, mode) == Flatten([i \in 1..Len(s) |-> EscapeByte(s[i], mode)])

\* url.getScheme
RECURSIVE getSchemeFrom(_, _)
getSchemeFrom(s, i) ==
    IF i > Len(s) THEN [err |-> FALSE, scheme |-> <<>>, rest |-> s]
    ELSE IF s[i] \in Letters THEN getSchemeFrom(s, i + 1)
    ELSE IF s[i] \in Digits \cup {"+", "-", "."} THEN
        (IF i = 1 THEN [err |-> FALSE, scheme |-> <<>>, rest |-> s]
         ELSE getSchemeFrom(s, i + 1))
    ELSE IF s[i] = ":" THEN
        (IF i = 1 THEN [err |-> TRUE, scheme |-> <<>>, rest |-> <<>>]
         ELSE [err |-> FALSE, scheme |-> SubSeq(s, 1, i - 1),
               rest |-> SubSeq(s, i + 1, Len(s))])
    ELSE [err |-> FALSE, scheme |-> <<>>, rest |-> s]

getScheme(s) == getSchemeFrom(s, 1)

\* url.validOptionalPort
validOptionalPort(port) ==
    \/ port = <<>>
    \/ /\ port[1] = ":"
       /\ \A i \in 2..Len(port) : port[i] \in Digits

\* url.parseHost (no user info, no IP literal in the model's strings)
parseHostErr(host) ==
    LET i == LastIndexByte(host, ":") IN
    i # 0 /\ ~validOptionalPort(SubSeq(host, i, Len(host)))

\* the authority and the path of url.parse, for a rest that starts with "//"
parseAuthority(u0, rest) ==
    The({The({IF parseHostErr(auth) THEN [err |-> TRUE, u |-> NilURL]
              ELSE [err |-> FALSE,
                    u |-> [u0 EXCEPT !.Host = auth,
                                     !.Path = IF i = 0 THEN <<>>
                                              ELSE SubSeq(auth0, i, Len(auth0))]] :
                auth \in {IF i = 0 THEN auth0 ELSE SubSeq(auth0, 1, i - 1)}}) :
            auth0 \in {SubSeq(rest, 3, Len(rest))}, i \in {IndexByte(SubSeq(rest, 3, Len(rest)), "/")}})

\* url.parse after the scheme and the query are cut off
parseHier(scheme, rest, force, rawq) ==
    LET u0 == [EmptyURL EXCEPT !.Scheme = scheme, !.ForceQuery = force,
                               !.RawQuery = rawq]
    IN
    IF ~HasPrefix(rest, <<"/">>) /\ scheme # <<>> THEN
        \* a rootless path after a scheme is opaque
        [err |-> FALSE, u |-> [u0 EXCEPT !.Opaque = rest]]
    ELSE IF ~HasPrefix(rest, <<"/">>) /\ Contains(Cut(rest, "/").before, ":") THEN
        \* first path segment in URL cannot contain colon
        [err |-> TRUE, u |-> NilURL]
    ELSE IF /\ (scheme # <<>> \/ ~HasPrefix(rest, <<"/", "/", "/">>))
            /\ HasPrefix(rest, <<"/", "/">>) THEN
        parseAuthority(u0, rest)
    ELSE
        [err |-> FALSE,
         u |-> [u0 EXCEPT !.Path = rest,
                          !.OmitHost = (scheme # <<>> /\ HasPrefix(rest, <<"/">>))]]

\* url.parse(rawURL, viaRequest = false), after the fragment is cut off
parseNoFrag(rawURL) ==
    The({IF sch.err THEN [err |-> TRUE, u |-> NilURL]
         ELSE IF HasSuffix(sch.rest, <<"?">>) /\ Count(sch.rest, "?") = 1
         THEN The({parseHier(sch.scheme, rest, TRUE, <<>>) :
                    rest \in {SubSeq(sch.rest, 1, Len(sch.rest) - 1)}})
         ELSE The({parseHier(sch.scheme, q.before, FALSE, q.after) :
                    q \in {Cut(sch.rest, "?")}}) :
            sch \in {getScheme(rawURL)}})

\* url.Parse
Parse(rawURL) ==
    The({The({IF r.err THEN r
              ELSE [err |-> FALSE, u |-> [r.u EXCEPT !.Fragment = fcut.after]] :
            r \in {parseNoFrag(fcut.before)}}) :
            fcut \in {Cut(rawURL, "#")}})

\* (*URL).String
URLString(u) ==
    The({
    LET scheme == IF u.Scheme # <<>> THEN u.Scheme \o <<":">> ELSE <<>>
        auth   == IF u.Scheme # <<>> \/ u.Host # <<>> THEN
                      (IF u.OmitHost /\ u.Host = <<>> THEN <<>>
                       ELSE (IF u.Host # <<>> \/ u.Path # <<>>
                             THEN <<"/", "/">> ELSE <<>>) \o u.Host)
                  ELSE <<>>
        slash  == IF path # <<>> /\ path[1] # "/" /\ u.Host # <<>>
                  THEN <<"/">> ELSE <<>>
        dot    == IF /\ scheme \o auth \o slash = <<>>
                     /\ Contains(Cut(path, "/").before, ":")
                  THEN <<".", "/">> ELSE <<>>
        hier   == IF u.Opaque # <<>> THEN u.Opaque
                  ELSE auth \o slash \o dot \o path
        query  == IF u.ForceQuery \/ u.RawQuery # <<>>
                  THEN <<"?">> \o u.RawQuery ELSE <<>>
        frag   == IF u.Fragment # <<>>
                  THEN <<"#">> \o Escape(u.Fragment, "fragment") ELSE <<>>
    IN scheme \o hier \o query \o frag :
        path \in {Escape(u.Path, "path")}})

\* one segment of the loop of url.resolvePath: dst and first after elem
resolveElem(elem, dst, first) ==
    IF elem = <<".">> THEN [dst |-> dst, first |-> FALSE]
    ELSE IF elem = <<".", ".">> THEN
        The({IF idx = 0 THEN [dst |-> <<"/">>, first |-> TRUE]
             ELSE [dst |-> <<"/">> \o SubSeq(dst, 2, idx), first |-> first] :
                idx \in {LastIndexByte(SubSeq(dst, 2, Len(dst)), "/")}})
    ELSE [dst |-> (IF first THEN dst ELSE dst \o <<"/">>) \o elem, first |-> FALSE]

\* the loop of url.resolvePath over the segments of full
RECURSIVE resolveLoop(_, _, _)
resolveLoop(remaining, dst, first) ==
    The({The({IF c.found THEN resolveLoop(c.after, d.dst, d.first)
              ELSE IF c.before = <<".">> \/ c.before = <<".", ".">>
              THEN d.dst \o <<"/">>
              ELSE d.dst :
                d \in {resolveElem(c.before, dst, first)}}) :
            c \in {Cut(remaining, "/")}})

\* url.resolvePath taking the base for a directory whether or not it ends
\* in "/"
resolvePathJoined(base, ref) ==
    The({IF full = <<>> THEN <<>>
         ELSE The({IF Len(r) > 1 /\ r[2] = "/" THEN Tail(r) ELSE r :
                    r \in {resolveLoop(full, <<"/">>, TRUE)}}) :
            full \in {IF ref = <<>> THEN base
                     ELSE IF ref[1] # "/"
                     THEN (IF HasSuffix(base, <<"/">>) THEN base ELSE base \o <<"/">>)
                          \o ref
                     ELSE ref}})

\* url.resolvePath
resolvePath(base, ref) ==
    The({IF full = <<>> THEN <<>>
         ELSE The({IF Len(r) > 1 /\ r[2] = "/" THEN Tail(r) ELSE r :
                    r \in {resolveLoop(full, <<"/">>, TRUE)}}) :
            full \in {IF ref = <<>> THEN base
                     ELSE IF ref[1] # "/"
                     THEN SubSeq(base, 1, LastIndexByte(base, "/")) \o ref
                     ELSE ref}})

\* (*URL).ResolveReference
ResolveReference(u, ref) ==
    LET url0 == IF ref.Scheme = <<>> THEN [ref EXCEPT !.Scheme = u.Scheme] ELSE ref
        inherit == ref.Path = <<>> /\ ~ref.ForceQuery /\ ref.RawQuery = <<>>
        url1 == IF inherit THEN
                    [url0 EXCEPT !.RawQuery = u.RawQuery,
                                 !.Fragment = IF ref.Fragment = <<>>
                                              THEN u.Fragment ELSE ref.Fragment]
                ELSE url0
    IN
    IF ref.Scheme # <<>> \/ ref.Host # <<>> THEN
        The({[url0 EXCEPT !.Path = resolvePath(p, <<>>)] :
                p \in {Escape(ref.Path, "path")}})
    ELSE IF ref.Opaque # <<>> THEN
        [url0 EXCEPT !.Host = <<>>, !.Path = <<>>]
    ELSE IF ref.Path = <<>> /\ u.Opaque # <<>> THEN
        [url1 EXCEPT !.Opaque = u.Opaque, !.Host = <<>>, !.Path = <<>>]
    ELSE
        The({[url1 EXCEPT !.Host = u.Host, !.Path = resolvePath(bp, rp)] :
                bp \in {Escape(u.Path, "path")}, rp \in {Escape(ref.Path, "path")}})

\* ------------------------------------------------------------------------
\* Go slices and maps
\* ------------------------------------------------------------------------

\* The memory h: the backing arrays of slices, each with its capacity and the
\* cells written so far, and the map objects.  A slice header is the array
\* (0 for a nil slice) and the length; a map reference is the number of the
\* map object (0 for a nil map).

EmptyMem == [arrs |-> <<>>, maps |-> <<>>]

NilSlice == [present |-> TRUE, arr |-> 0, len |-> 0]

\* a map entry that is not there
Absent == [present |-> FALSE, arr |-> 0, len |-> 0]

\* the elements seen through slice s
Read(h, s) == IF s.arr = 0 THEN <<>> ELSE SubSeq(h.arrs[s.arr].cells, 1, s.len)

CapOf(h, s) == IF s.arr = 0 THEN 0 ELSE h.arrs[s.arr].cap

\* runtime.growslice: the capacity of the array append allocates, rounded up
\* to the allocator's size class (elements of one word: 40 -> 48, 56 -> 64
\* bytes; string elements fill a size class up to seven of them)
RoundUpCap(n, elem) ==
    IF elem = "word" /\ n \in {5, 7} THEN n + 1 ELSE n

GrowCap(old, needed, elem) ==
    IF needed > 2 * old THEN RoundUpCap(needed, elem) ELSE 2 * old

\* cells with vs written from position at on, over what was there
RECURSIVE WriteAt(_, _, _)
WriteAt(cells, at, vs) ==
    IF vs = <<>> THEN cells
    ELSE The({WriteAt(c1, at + 1, Tail(vs)) :
                 c1 \in {IF at <= Len(cells) THEN [cells EXCEPT ![at] = Head(vs)]
                         ELSE Append(cells, Head(vs))}})

\* the built-in append(s, vs...): in place when the capacity allows
AppendMany(h, s, vs, elem) ==
    IF vs = <<>> THEN [h |-> h, s |-> s]
    ELSE IF s.len + Len(vs) <= CapOf(h, s) THEN
        [h |-> [h EXCEPT !.arrs[s.arr].cells =
                             WriteAt(h.arrs[s.arr].cells, s.len + 1, vs)],
         s |-> [s EXCEPT !.len = s.len + Len(vs)]]
    ELSE
        [h |-> [h EXCEPT !.arrs =
                   Append(h.arrs,
                          [cap |-> GrowCap(CapOf(h, s), s.len + Len(vs), elem),
                           cells |-> Read(h, s) \o vs])],
         s |-> [present |-> TRUE, arr |-> Len(h.arrs) + 1, len |-> s.len + Len(vs)]]

AppendSlice(h, s, v) == AppendMany(h, s, <<v>>, "string")

\* a fresh one-element slice: []string{v}
NewSlice1(h, v) ==
    [h |-> [h EXCEPT !.arrs = Append(h.arrs, [cap |-> 1, cells |-> <<v>>])],
     s |-> [present |-> TRUE, arr |-> Len(h.arrs) + 1, len |-> 1]]

\* the bytes that are not token bytes, among those of the model
Separators == {" ", "/", ":", "?", "#", "(", ")", ","}

\* textproto.CanonicalMIMEHeaderKey: upper case at the start and after '-';
\* a key with a byte that no header field name may have is returned as it is
ToUpper(c) ==
    CASE c = "a" -> "A" [] c = "b" -> "B" [] c = "c" -> "C" [] c = "t" -> "T"
      [] OTHER -> c

ToLower(c) ==
    CASE c = "A" -> "a" [] c = "B" -> "b" [] c = "C" -> "c" [] c = "T" -> "t"
      [] OTHER -> c

\* the key with the case of each byte as given
KeyAsGiven(k) == k

CanonicalMIMEHeaderKey(k) ==
    IF \E i \in 1..Len(k) : k[i] \in Separators THEN k
    ELSE [i \in 1..Len(k) |->
            IF i = 1 \/ k[i - 1] = "-" THEN ToUpper(k[i]) ELSE ToLower(k[i])]

\* the header keys and query keys of the model
HeaderKeyInputs == {<<"a">>, <<"A">>, <<"a", " ", "b">>, <<"A", " ", "b">>}
HeaderKeys ==
    {CanonicalMIMEHeaderKey(k) : k \in HeaderKeyInputs}
    \cup {<<"C", "o", "n", "t", "e", "n", "t", "-", "T", "y", "p", "e">>,
          <<"A", "u", "t", "h", "o", "r", "i", "z", "a", "t", "i", "o", "n">>}
QueryKeys == {<<"a">>, <<"b">>}
MapKeys == HeaderKeys \cup QueryKeys

NoEntries == [k \in MapKeys |-> Absent]

\* make(http.Header), url.Values{}: a new, empty map object
MakeMap(h) ==
    [h |-> [h EXCEPT !.maps = Append(h.maps, NoEntries)], m |-> Len(h.maps) + 1]

\* the entries of map m (a nil map reads as empty)
Entries(h, m) == IF m = 0 THEN NoEntries ELSE h.maps[m]

\* the map as a reader sees it: nil or not, its keys, the value list of each
View(h, m) ==
    [nil |-> (m = 0),
     keys |-> {k \in MapKeys : Entries(h, m)[k].present},
     kv |-> [k \in MapKeys |-> Read(h, Entries(h, m)[k])]]

\* ------------------------------------------------------------------------
\* Requests and its options
\* ------------------------------------------------------------------------

NilBody == [kind |-> "nil", val |-> <<>>]

\* &Requests{}
ZeroRequests ==
    [alive |-> TRUE, Doer |-> "nil", Middleware |-> NilSlice, Method |-> <<>>,
     URL |-> NilURL, Header |-> 0, ContentLength |-> 0, Host |-> <<>>,
     Trailer |-> 0, QueryParams |-> 0, Marshaler |-> "nil",
     Unmarshaler |-> "nil", Body |-> NilBody]

\* a name that holds no Requests (yet)
NoRequests == [ZeroRequests EXCEPT !.alive = FALSE]

\* an option value: the constructor called and its arguments
\* (k, v: strings; args: paths, query sources or middleware; x: a Doer,
\* Marshaler or Unmarshaler; body: a body value)
Opt(op, k, v, args) ==
    [op |-> op, k |-> k, v |-> v, args |-> args, x |-> "nil", body |-> NilBody]

OptOf(op, x) == [Opt(op, <<>>, <<>>, <<>>) EXCEPT !.x = x]

OptBody(body) == [Opt("Body", <<>>, <<>>, <<>>) EXCEPT !.body = body]

\* m[k] = append(m[k], v), as http.Header.Add and url.Values.Add do
MapAdd(h, m, k, v) ==
    LET cur == IF h.maps[m][k].present THEN h.maps[m][k] ELSE NilSlice
    IN The({[a.h EXCEPT !.maps[m][k] = a.s] : a \in {AppendSlice(h, cur, v)}})

\* m[k] = []string{v}, as http.Header.Set does
MapSet(h, m, k, v) ==
    The({[a.h EXCEPT !.maps[m][k] = a.s] : a \in {NewSlice1(h, v)}})

\* delete(m, k); a no-op on a nil map
MapDel(h, m, k) == IF m = 0 THEN h ELSE [h EXCEPT !.maps[m][k] = Absent]

\* base64.StdEncoding.EncodeToString: three bytes to four characters of the
\* alphabet, a last group of one or two bytes padded with "="
Base64Alphabet ==
    <<"A", "B", "C", "D", "E", "F", "G", "H", "I", "J", "K", "L", "M", "N", "O", "P",
      "Q", "R", "S", "T", "U", "V", "W", "X", "Y", "Z", "a", "b", "c", "d", "e", "f",
      "g", "h", "i", "j", "k", "l", "m", "n", "o", "p", "q", "r", "s", "t", "u", "v",
      "w", "x", "y", "z", "0", "1", "2", "3", "4", "5", "6", "7", "8", "9", "+", "/">>

RECURSIVE EncodeToString(_)
EncodeToString(src) ==
    IF src = <<>> THEN <<>>
    ELSE The({
        <<Base64Alphabet[((n \div 262144) % 64) + 1],
          Base64Alphabet[((n \div 4096) % 64) + 1],
          IF Len(src) = 1 THEN "=" ELSE Base64Alphabet[((n \div 64) % 64) + 1],
          IF Len(src) <= 2 THEN "=" ELSE Base64Alphabet[(n % 64) + 1]>>
        \o (IF Len(src) <= 3 THEN <<>> ELSE EncodeToString(SubSeq(src, 4, Len(src)))) :
            n \in {CharCode(src[1]) * 65536
                    + (IF Len(src) >= 2 THEN CharCode(src[2]) * 256 ELSE 0)
                    + (IF Len(src) >= 3 THEN CharCode(src[3]) ELSE 0)}})

\* basicAuth: username:password in base64
basicAuth(username, password) == EncodeToString(username \o <<":">> \o password)

Authorization == <<"A", "u", "t", "h", "o", "r", "i", "z", "a", "t", "i", "o", "n">>

\* RelativeURL(p) resolving against the zero URL when r has none
ApplyRelativeURLResolve(r, p) ==
    The({IF pr.err THEN [r |-> r, err |-> TRUE]
         ELSE [r |-> [r EXCEPT !.URL =
                         ResolveReference(IF r.URL.nil THEN EmptyURL ELSE r.URL, pr.u)],
               err |-> FALSE] :
            pr \in {Parse(p)}})

\* RelativeURL(p) applied to r
ApplyRelativeURL(r, p) ==
    The({IF pr.err THEN [r |-> r, err |-> TRUE]
         ELSE IF r.URL.nil THEN [r |-> [r EXCEPT !.URL = pr.u], err |-> FALSE]
         ELSE [r |-> [r EXCEPT !.URL = ResolveReference(r.URL, pr.u)],
               err |-> FALSE] :
            pr \in {Parse(p)}})

\* URL(p) applied to r
\* URL assigning what url.Parse returned beside its error
ApplyURLUnchecked(r, p) ==
    The({IF pr.err THEN [r |-> [r EXCEPT !.URL = NilURL], err |-> TRUE]
         ELSE [r |-> [r EXCEPT !.URL = pr.u], err |-> FALSE] :
            pr \in {Parse(p)}})

ApplyURL(r, p) ==
    The({IF pr.err THEN [r |-> r, err |-> TRUE]
         ELSE [r |-> [r EXCEPT !.URL = pr.u], err |-> FALSE] :
            pr \in {Parse(p)}})

\* the loop of Method over its paths
RECURSIVE ApplyPaths(_, _)
ApplyPaths(r, paths) ==
    IF paths = <<>> THEN [r |-> r, err |-> FALSE]
    ELSE The({IF a.err THEN a ELSE ApplyPaths(a.r, Tail(paths)) :
                 a \in {ApplyRelativeURL(r, Head(paths))}})

\* Method(m, paths...) leaving a method already set as it is
ApplyMethodOnce(r, m, paths) ==
    ApplyPaths([r EXCEPT !.Method = IF @ = <<>> THEN m ELSE @], paths)

\* Method(m, paths...) applied to r
ApplyMethod(r, m, paths) == ApplyPaths([r EXCEPT !.Method = m], paths)

\* AddHeader(key, value) and Header(key, value) applied to r
ApplyAddHeader(h, r, key, value) ==
    The({[h |-> MapAdd(mk.h, mk.m, CanonicalMIMEHeaderKey(key), value),
          r |-> [r EXCEPT !.Header = mk.m], err |-> FALSE] :
            mk \in {IF r.Header = 0 THEN MakeMap(h) ELSE [h |-> h, m |-> r.Header]}})

ApplyHeader(h, r, key, value) ==
    The({[h |-> MapSet(mk.h, mk.m, CanonicalMIMEHeaderKey(key), value),
          r |-> [r EXCEPT !.Header = mk.m], err |-> FALSE] :
            mk \in {IF r.Header = 0 THEN MakeMap(h) ELSE [h |-> h, m |-> r.Header]}})

\* DeleteHeader(key) applied to r
ApplyDeleteHeader(h, r, key) ==
    [h |-> MapDel(h, r.Header, CanonicalMIMEHeaderKey(key)), r |-> r, err |-> FALSE]

\* the inner loops of QueryParams: every value of every key of one source
RECURSIVE AddValues(_, _, _, _)
AddValues(h, m, k, vs) ==
    IF vs = <<>> THEN h
    ELSE The({AddValues(h1, m, k, Tail(vs)) : h1 \in {MapAdd(h, m, k, Head(vs))}})

RECURSIVE AddSource(_, _, _, _)
AddSource(h, m, kv, keys) ==
    IF keys = {} THEN h
    ELSE LET k == CHOOSE k \in keys : TRUE
         IN The({AddSource(h1, m, kv, keys \ {k}) : h1 \in {AddValues(h, m, k, kv[k])}})

\* the loop of QueryParams over its sources: nil adds nothing, a map or
\* url.Values is merged, anything else goes through goquery.Values, which
\* fails on what is not a struct
RECURSIVE ApplySources(_, _, _)
ApplySources(h, m, srcs) ==
    IF srcs = <<>> THEN [h |-> h, err |-> FALSE]
    ELSE LET src == Head(srcs) IN
         IF src.kind = "nil" THEN ApplySources(h, m, Tail(srcs))
         ELSE IF src.kind = "bad" THEN [h |-> h, err |-> TRUE]
         ELSE The({ApplySources(h1, m, Tail(srcs)) :
                      h1 \in {AddSource(h, m, src.kv, DOMAIN src.kv)}})

\* QueryParams(queryStructs...) applied to r
ApplyQueryParams(h, r, srcs) ==
    The({The({[h |-> a.h, r |-> [r EXCEPT !.QueryParams = mk.m], err |-> a.err] :
                 a \in {ApplySources(mk.h, mk.m, srcs)}}) :
            mk \in {IF r.QueryParams = 0 THEN MakeMap(h)
                    ELSE [h |-> h, m |-> r.QueryParams]}})

\* Use(m...) putting the new middleware before those r has
ApplyUsePrepend(h, r, ms) ==
    The({[h |-> a.h, r |-> [r EXCEPT !.Middleware = a.s], err |-> FALSE] :
            a \in {AppendMany(h, NilSlice, ms \o Read(h, r.Middleware), "word")}})

\* Use(m...) applied to r
ApplyUse(h, r, ms) ==
    The({[h |-> a.h, r |-> [r EXCEPT !.Middleware = a.s], err |-> FALSE] :
            a \in {AppendMany(h, r.Middleware, ms, "word")}})

\* o.Apply(r): one option applied to r, over memory h
ApplyOne(h, r, o) ==
    CASE o.op = "Method" ->
            The({[h |-> h, r |-> a.r, err |-> a.err] :
                    a \in {ApplyMethod(r, o.v, o.args)}})
      [] o.op = "AddHeader" -> ApplyAddHeader(h, r, o.k, o.v)
      [] o.op = "Header" -> ApplyHeader(h, r, o.k, o.v)
      [] o.op = "DeleteHeader" -> ApplyDeleteHeader(h, r, o.k)
      [] o.op = "BasicAuth" ->
            ApplyHeader(h, r, Authorization,
                        <<"B", "a", "s", "i", "c", " ">> \o basicAuth(o.k, o.v))
      [] o.op = "BearerAuth" ->
            IF o.v = <<>> THEN ApplyDeleteHeader(h, r, Authorization)
            ELSE ApplyHeader(h, r, Authorization,
                             <<"B", "e", "a", "r", "e", "r", " ">> \o o.v)
      [] o.op = "URL" ->
            The({[h |-> h, r |-> a.r, err |-> a.err] : a \in {ApplyURL(r, o.v)}})
      [] o.op = "RelativeURL" ->
            The({[h |-> h, r |-> a.r, err |-> a.err] :
                    a \in {ApplyRelativeURL(r, o.v)}})
      [] o.op = "QueryParams" -> ApplyQueryParams(h, r, o.args)
      [] o.op = "Body" -> [h |-> h, r |-> [r EXCEPT !.Body = o.body], err |-> FALSE]
      [] o.op = "Marshaler" ->
            [h |-> h, r |-> [r EXCEPT !.Marshaler = o.x], err |-> FALSE]
      [] o.op = "Unmarshaler" ->
            [h |-> h, r |-> [r EXCEPT !.Unmarshaler = o.x], err |-> FALSE]
      [] o.op = "Host" -> [h |-> h, r |-> [r EXCEPT !.Host = o.v], err |-> FALSE]
      [] o.op = "Use" -> ApplyUse(h, r, o.args)
      [] o.op = "WithDoer" -> [h |-> h, r |-> [r EXCEPT !.Doer = o.x], err |-> FALSE]

\* the loop of Apply going on after an option failed, the first error kept
RECURSIVE ApplyFromAll(_, _, _, _, _)
ApplyFromAll(h, r, opts, i, log) ==
    IF i > Len(opts) THEN [h |-> h, r |-> r, err |-> FALSE, errAt |-> 0, log |-> log]
    ELSE The({The({[rest EXCEPT !.err = a.err \/ rest.err,
                                !.errAt = IF a.err THEN i ELSE rest.errAt] :
                    rest \in {ApplyFromAll(a.h, a.r, opts, i + 1, Append(log, i))}}) :
                 a \in {ApplyOne(h, r, opts[i])}})

\* the loop of (*Requests).Apply from option i on; log lists the options invoked
RECURSIVE ApplyFrom(_, _, _, _, _)
ApplyFrom(h, r, opts, i, log) ==
    IF i > Len(opts) THEN [h |-> h, r |-> r, err |-> FALSE, errAt |-> 0, log |-> log]
    ELSE The({IF a.err THEN [h |-> a.h, r |-> a.r, err |-> TRUE, errAt |-> i,
                                 log |-> Append(log, i)]
              ELSE ApplyFrom(a.h, a.r, opts, i + 1, Append(log, i)) :
                 a \in {ApplyOne(h, r, opts[i])}})

\* (*Requests).Apply
ApplyOpts(h, r, opts) == ApplyFrom(h, r, opts, 1, <<>>)

\* cloneHeader returning the map it was given
cloneHeaderShared(h, m) == [h |-> h, m |-> m]

\* cloneHeader and cloneValues: nil for nil, else a new map whose entries are
\* the source's (each value slice assigned, not copied)
cloneHeader(h, m) ==
    IF m = 0 THEN [h |-> h, m |-> 0]
    ELSE [h |-> [h EXCEPT !.maps = Append(h.maps, [k \in MapKeys |-> h.maps[m][k]])],
          m |-> Len(h.maps) + 1]

cloneValues(h, m) ==
    IF m = 0 THEN [h |-> h, m |-> 0]
    ELSE [h |-> [h EXCEPT !.maps = Append(h.maps, [k \in MapKeys |-> h.maps[m][k]])],
          m |-> Len(h.maps) + 1]

\* cloneURL: nil for nil, else a copy of the struct
cloneURL(u) == IF u.nil THEN NilURL ELSE [f \in DOMAIN u |-> u[f]]

\* Clone copying the struct and nothing else
CloneShallow(h, r) == [h |-> h, r |-> r]

\* (*Requests).Clone: the struct copied (the Middleware slice as a slice
\* header), then Header, Trailer, URL and QueryParams replaced by clones
Clone(h, r) ==
    The({The({The({
        [h |-> qp.h,
         r |-> [r EXCEPT !.Header = hd.m, !.Trailer = tr.m, !.URL = cloneURL(r.URL),
                         !.QueryParams = qp.m]] :
            qp \in {cloneValues(tr.h, r.QueryParams)}}) :
            tr \in {cloneHeader(hd.h, r.Trailer)}}) :
            hd \in {cloneHeader(h, r.Header)}})

\* With applying the options to the receiver itself
WithInPlace(h, r, opts) ==
    The({[h |-> a.h, r |-> IF a.err THEN NoRequests ELSE a.r, src |-> a.r,
          err |-> a.err, errAt |-> a.errAt, log |-> a.log] :
            a \in {ApplyOpts(h, r, opts)}})

\* (*Requests).With: the clone with the options applied, or nil and the error;
\* src is the receiver as the call leaves it
WithOpts(h, r, opts) ==
    The({The({[h |-> a.h, r |-> IF a.err THEN NoRequests ELSE a.r, src |-> r,
               err |-> a.err, errAt |-> a.errAt, log |-> a.log] :
            a \in {ApplyOpts(c.h, c.r, opts)}}) :
            c \in {Clone(h, r)}})

\* ------------------------------------------------------------------------
\* materialization: RequestContext and http.NewRequest
\* ------------------------------------------------------------------------

GET == <<"G", "E", "T">>
POST == <<"P", "O", "S", "T">>

HeaderContentType == <<"C", "o", "n", "t", "e", "n", "t", "-", "T", "y", "p", "e">>

RECURSIVE StrLess(_, _)
StrLess(s, t) ==
    IF t = <<>> THEN FALSE
    ELSE IF s = <<>> THEN TRUE
    ELSE IF CharCode(Head(s)) # CharCode(Head(t)) THEN CharCode(Head(s)) < CharCode(Head(t))
    ELSE StrLess(Tail(s), Tail(t))

\* the keys in increasing order
RECURSIVE SortKeys(_)
SortKeys(ks) ==
    IF ks = {} THEN <<>>
    ELSE The({<<k>> \o SortKeys(ks \ {k}) :
                 k \in {CHOOSE k \in ks : \A j \in ks \ {k} : StrLess(k, j)}})

\* one key of url.Values.Encode: k=v for each value, after buf
RECURSIVE EncodeValues(_, _, _)
EncodeValues(buf, k, vs) ==
    IF vs = <<>> THEN buf
    ELSE The({EncodeValues(b1, k, Tail(vs)) :
                 b1 \in {buf \o (IF buf = <<>> THEN <<>> ELSE <<"&">>)
                             \o Escape(k, "query") \o <<"=">>
                             \o Escape(Head(vs), "query")}})

RECURSIVE EncodeKeys(_, _, _)
EncodeKeys(buf, kv, ks) ==
    IF ks = <<>> THEN buf
    ELSE The({EncodeKeys(b1, kv, Tail(ks)) :
                 b1 \in {EncodeValues(buf, Head(ks), kv[Head(ks)])}})

\* url.Values.Encode, on the map as read
Encode(v) == EncodeKeys(<<>>, v.kv, SortKeys(v.keys))

\* the marshalers: encoding/json, encoding/xml, goquery, or one of the caller
\* that fails or that names no content type; the encoded bytes are named by
\* the codec and the value
ContentTypeJSON == "application/json"
ContentTypeXML == "application/xml"
ContentTypeForm == "application/x-www-form-urlencoded"

Marshal(m, v) ==
    IF m = "failing" \/ v = <<"unencodable">>
    THEN [data |-> <<>>, ct |-> "", err |-> TRUE]
    ELSE [data |-> <<m>> \o v,
          ct |-> CASE m = "json" -> ContentTypeJSON
                   [] m = "xml" -> ContentTypeXML
                   [] m = "form" -> ContentTypeForm
                   [] OTHER -> "",
          err |-> FALSE]

\* getRequestBody marshaling whatever is not nil
getRequestBodyMarshalAll(r) ==
    IF r.Body.kind = "nil"
    THEN [body |-> NilBody, ct |-> "", err |-> FALSE, by |-> "none"]
    ELSE The({The({IF b.err
                   THEN [body |-> NilBody, ct |-> "", err |-> TRUE, by |-> m]
                   ELSE [body |-> [kind |-> "bytes.Reader", val |-> b.data],
                         ct |-> b.ct, err |-> FALSE, by |-> m] :
                    b \in {Marshal(m, r.Body.val)}}) :
                m \in {IF r.Marshaler = "nil" THEN "json" ELSE r.Marshaler}})

\* (*Requests).getRequestBody; by is the marshaler it called, if any
getRequestBody(r) ==
    CASE r.Body.kind = "nil" ->
            [body |-> NilBody, ct |-> "", err |-> FALSE, by |-> "none"]
      [] r.Body.kind = "reader" ->
            [body |-> r.Body, ct |-> "", err |-> FALSE, by |-> "none"]
      [] r.Body.kind = "string" ->
            [body |-> [kind |-> "strings.Reader", val |-> r.Body.val], ct |-> "",
             err |-> FALSE, by |-> "none"]
      [] r.Body.kind = "bytes" ->
            [body |-> [kind |-> "bytes.Reader", val |-> r.Body.val], ct |-> "",
             err |-> FALSE, by |-> "none"]
      [] OTHER ->
            The({The({IF b.err
                      THEN [body |-> NilBody, ct |-> "", err |-> TRUE, by |-> m]
                      ELSE [body |-> [kind |-> "bytes.Reader", val |-> b.data],
                            ct |-> b.ct, err |-> FALSE, by |-> m] :
                        b \in {Marshal(m, r.Body.val)}}) :
                    m \in {IF r.Marshaler = "nil" THEN "json" ELSE r.Marshaler}})

\* http.validMethod: a non-empty token
validMethod(m) == m # <<>> /\ \A i \in 1..Len(m) : m[i] \notin Separators

\* http.removeEmptyPort
removeEmptyPort(host) ==
    IF host # <<>> /\ host[Len(host)] = ":" THEN SubSeq(host, 1, Len(host) - 1)
    ELSE host

NoRequest ==
    [nil |-> TRUE, Method |-> <<>>, URL |-> NilURL, Header |-> 0, Trailer |-> 0,
     Host |-> <<>>, ContentLength |-> 0, Body |-> NilBody, ctx |-> "background"]

\* http.NewRequest(method, url, body): the request with an empty header and
\* the content length of a body whose length is known
NewRequest(h, method, urlS, body) ==
    The({IF ~validMethod(IF method = <<>> THEN GET ELSE method) \/ pu.err
         THEN [h |-> h, req |-> NoRequest, err |-> TRUE]
         ELSE The({[h |-> mk.h,
                    req |-> [nil |-> FALSE,
                             Method |-> IF method = <<>> THEN GET ELSE method,
                             URL |-> [pu.u EXCEPT !.Host = removeEmptyPort(pu.u.Host)],
                             Header |-> mk.m, Trailer |-> 0,
                             Host |-> removeEmptyPort(pu.u.Host),
                             ContentLength |->
                                 IF body.kind \in {"strings.Reader", "bytes.Reader"}
                                 THEN Len(body.val) ELSE 0,
                             Body |-> body, ctx |-> "background"],
                    err |-> FALSE] :
                   mk \in {MakeMap(h)}}) :
            pu \in {Parse(urlS)}})

\* the loop copying only the keys the request does not have yet
RECURSIVE CopyHeaderAbsent(_, _, _, _)
CopyHeaderAbsent(h, from, to, keys) ==
    IF keys = {} THEN h
    ELSE LET k == CHOOSE k \in keys : TRUE
         IN The({CopyHeaderAbsent(h1, from, to, keys \ {k}) :
                    h1 \in {IF h.maps[to][k].present THEN h
                            ELSE [h EXCEPT !.maps[to][k] = h.maps[from][k]]}})

\* the loop of RequestContext over reqs.Header: req.Header[k] = v
RECURSIVE CopyHeader(_, _, _, _)
CopyHeader(h, from, to, keys) ==
    IF keys = {} THEN h
    ELSE LET k == CHOOSE k \in keys : TRUE
         IN The({CopyHeader(h1, from, to, keys \ {k}) :
                    h1 \in {[h EXCEPT !.maps[to][k] = h.maps[from][k]]}})

\* req.Header.Set("Content-Type", ct) when the body was marshaled
SetContentType(h, req, ct) ==
    IF ct = "" THEN h
    ELSE MapSet(h, req.Header, HeaderContentType, <<ct>>)

\* the raw query replaced by the encoded QueryParams
ReplaceQuery(raw, qp) == IF qp.keys = {} THEN raw ELSE Encode(qp)

\* the raw query of the request: the encoded QueryParams qp after the raw
\* query the URL already has
MergeQuery(raw, qp) ==
    IF qp.keys = {} THEN raw
    ELSE IF raw # <<>> THEN raw \o <<"&">> \o Encode(qp)
    ELSE Encode(qp)

\* the length http.NewRequest computed kept whatever the configuration says
LengthComputed(computed, configured) == computed

\* req.ContentLength: the configuration's when it is not 0, else the length
\* http.NewRequest computed
LengthOverride(computed, configured) ==
    IF configured # 0 THEN configured ELSE computed

\* the part of RequestContext after the options: reqs made into a request
Materialize(h, reqs) ==
    The({IF b.err THEN [h |-> h, req |-> NoRequest, err |-> TRUE, by |-> b.by]
         ELSE The({IF n.err THEN [h |-> n.h, req |-> n.req, err |-> TRUE, by |-> b.by]
                   ELSE The({[h |-> h2,
                              req |-> [n.req EXCEPT
                                 !.ContentLength =
                                     LengthOverride(@, reqs.ContentLength),
                                 !.Host = IF reqs.Host # <<>> THEN reqs.Host ELSE @,
                                 !.Trailer = reqs.Trailer,
                                 !.URL.RawQuery = MergeQuery(@, qp)],
                              err |-> FALSE, by |-> b.by] :
                        h2 \in {IF reqs.Header = 0 THEN SetContentType(n.h, n.req, b.ct)
                               ELSE CopyHeader(SetContentType(n.h, n.req, b.ct),
                                               reqs.Header, n.req.Header,
                                               View(h, reqs.Header).keys)},
                        qp \in {View(h, reqs.QueryParams)}}) :
                n \in {NewRequest(h, reqs.Method,
                                  IF reqs.URL.nil THEN <<>> ELSE URLString(reqs.URL),
                                  b.body)}}) :
            b \in {getRequestBody(reqs)}})

\* the receiver itself when there are no options, else With(opts...)
WithIfAny(h, r, opts) ==
    IF opts = <<>>
    THEN [h |-> h, r |-> r, src |-> r, err |-> FALSE, errAt |-> 0, log |-> <<>>]
    ELSE WithOpts(h, r, opts)

\* (*Requests).RequestContext
\* RequestContext returning the request as http.NewRequest made it
RequestContextBackground(h, r, ctx, opts) ==
    The({IF w.err
         THEN [h |-> w.h, src |-> w.src, reqs |-> NoRequests, req |-> NoRequest,
               err |-> TRUE, by |-> "none"]
         ELSE The({[h |-> m.h, src |-> w.src, reqs |-> w.r, req |-> m.req,
                    err |-> m.err, by |-> m.by] :
                    m \in {Materialize(w.h, w.r)}}) :
            w \in {WithIfAny(h, r, opts)}})

\* (*Requests).RequestContext: the request of r with the options, carrying
\* the context
RequestContext(h, r, ctx, opts) ==
    The({IF w.err
         THEN [h |-> w.h, src |-> w.src, reqs |-> NoRequests, req |-> NoRequest,
               err |-> TRUE, by |-> "none"]
         ELSE The({[h |-> m.h, src |-> w.src, reqs |-> w.r,
                    req |-> IF m.err THEN m.req ELSE [m.req EXCEPT !.ctx = ctx],
                    err |-> m.err, by |-> m.by] :
                    m \in {Materialize(w.h, w.r)}}) :
            w \in {WithIfAny(h, r, opts)}})

\* (*Requests).Request: the options are not passed on
Request(h, r, opts) == RequestContext(h, r, "background", <<>>)

\* a request as its reader sees it
RequestView(h, req) ==
    [nil |-> req.nil, Method |-> req.Method, URL |-> req.URL,
     Header |-> View(h, req.Header), Trailer |-> View(h, req.Trailer),
     Host |-> req.Host, ContentLength |-> req.ContentLength, Body |-> req.Body,
     ctx |-> req.ctx]

\* ------------------------------------------------------------------------
\* sending: DoContext and the Receive methods
\* ------------------------------------------------------------------------

\* what the Doer answers: an error, or a response with a status, a content
\* type and a body that may fail to read
NoResponse ==
    [nil |-> TRUE, err |-> FALSE, StatusCode |-> 0, ContentType |-> "",
     body |-> "", readErr |-> FALSE]

Response(code, ct, body, readErr) ==
    [nil |-> FALSE, err |-> FALSE, StatusCode |-> code, ContentType |-> ct,
     body |-> body, readErr |-> readErr]

\* what a Receive method did with the response; none for the other methods
NoOutcome ==
    [respNil |-> TRUE, body |-> "", err |-> FALSE, closed |-> FALSE, reads |-> 0,
     target |-> "none", unmarshaler |-> "none"]

\* Wrap(d, m...): the Doer d inside the middleware, the first of them
\* outermost
RECURSIVE Wrap(_, _)
Wrap(d, m) ==
    IF m = <<>> THEN d
    ELSE Wrap([base |-> FALSE, name |-> m[Len(m)], next |-> d],
              SubSeq(m, 1, Len(m) - 1))

\* Do(req) on a wrapped Doer, each middleware passing the request on to the
\* Doer it wraps and the response back: who saw the request and who the
\* response, in the order they did
RECURSIVE DoerDo(_)
DoerDo(d) ==
    IF d.base
    THEN <<[at |-> d.name, saw |-> "request"], [at |-> d.name, saw |-> "response"]>>
    ELSE <<[at |-> d.name, saw |-> "request"]>> \o DoerDo(d.next)
         \o <<[at |-> d.name, saw |-> "response"]>>

\* SendTrace with http.DefaultClient whatever Doer reqs has
SendTraceDefault(h, reqs) ==
    DoerDo(Wrap([base |-> TRUE, name |-> "http.DefaultClient", next |-> "none"],
                Read(h, reqs.Middleware)))

\* the calls a send makes: those of Wrap(doer, reqs.Middleware...).Do(req),
\* the Doer being http.DefaultClient when reqs has none
SendTrace(h, reqs) ==
    DoerDo(Wrap([base |-> TRUE,
                 name |-> IF reqs.Doer = "nil" THEN "http.DefaultClient" ELSE reqs.Doer,
                 next |-> "none"],
                Read(h, reqs.Middleware)))

\* DoContext calling the Doer whether or not there is a request
DoContextAnyway(h, r, ctx, opts, answer) ==
    The({IF w.err
         THEN [h |-> w.h, src |-> w.src, reqs |-> NoRequests, req |-> NoRequest,
               sent |-> FALSE, resp |-> NoResponse, err |-> TRUE, out |-> NoOutcome,
               by |-> "none", trace |-> <<>>]
         ELSE The({[h |-> q.h, src |-> w.src, reqs |-> w.r, req |-> q.req,
                    sent |-> TRUE,
                    resp |-> IF answer.err THEN NoResponse ELSE answer,
                    err |-> answer.err, out |-> NoOutcome, by |-> q.by,
                    trace |-> SendTrace(q.h, w.r)] :
                    q \in {RequestContext(w.h, w.r, ctx, <<>>)}}) :
            w \in {WithIfAny(h, r, opts)}})

\* (*Requests).DoContext: the options applied to a clone, the clone made into
\* a request, the request sent through the clone's middleware and Doer
DoContext(h, r, ctx, opts, answer) ==
    The({IF w.err
         THEN [h |-> w.h, src |-> w.src, reqs |-> NoRequests, req |-> NoRequest,
               sent |-> FALSE, resp |-> NoResponse, err |-> TRUE, out |-> NoOutcome,
               by |-> "none", trace |-> <<>>]
         ELSE The({IF q.err
                   THEN [h |-> q.h, src |-> w.src, reqs |-> w.r, req |-> NoRequest,
                         sent |-> FALSE, resp |-> NoResponse, err |-> TRUE,
                         out |-> NoOutcome, by |-> q.by, trace |-> <<>>]
                   ELSE [h |-> q.h, src |-> w.src, reqs |-> w.r, req |-> q.req,
                         sent |-> TRUE,
                         resp |-> IF answer.err THEN NoResponse ELSE answer,
                         err |-> answer.err, out |-> NoOutcome, by |-> q.by,
                         trace |-> SendTrace(q.h, w.r)] :
                    q \in {RequestContext(w.h, w.r, ctx, <<>>)}}) :
            w \in {WithIfAny(h, r, opts)}})

\* (*Requests).Do: the options are not passed on
Do(h, r, opts, answer) == DoContext(h, r, "background", <<>>, answer)

\* (*MultiUnmarshaler).Unmarshal and the codecs it chooses between
IsJSON(ct) ==
    ct \in {"application/json", "application/json; charset=utf-8",
            "application/json, application/xml"}

IsXML(ct) ==
    ct \in {"application/xml", "text/xml; application/xml",
            "application/json, application/xml"}

\* UnmarshalErr with the default unmarshaler testing for XML first
UnmarshalErrXMLFirst(u, body, ct, v) ==
    CASE u = "default" ->
            (IF IsXML(ct) THEN body # "xml"
             ELSE IF IsJSON(ct) THEN body # "json" \/ v = "str"
             ELSE TRUE)
      [] u = "json" -> body # "json" \/ v = "str"
      [] u = "xml" -> body # "xml"
      [] OTHER -> FALSE

\* the error of unmarshaler u on a body of content type ct decoded into v, a
\* pointer to a struct ("ptr") or to a string ("str"): the body "json" is a
\* JSON object, which json.Unmarshal does not decode into a string
UnmarshalErr(u, body, ct, v) ==
    CASE u = "default" ->
            (IF IsJSON(ct) THEN body # "json" \/ v = "str"
             ELSE IF IsXML(ct) THEN body # "xml"
             ELSE TRUE)
      [] u = "json" -> body # "json" \/ v = "str"
      [] u = "xml" -> body # "xml"
      [] OTHER -> FALSE

\* Dispatch taking every status from 200 on for a success
DispatchFrom200(r, d, successV, failureV) ==
    IF d.err THEN [NoOutcome EXCEPT !.respNil = d.resp.nil, !.err = TRUE]
    ELSE IF d.resp.readErr
    THEN [NoOutcome EXCEPT !.respNil = FALSE, !.err = TRUE, !.closed = TRUE,
                           !.reads = 1]
    ELSE LET code == d.resp.StatusCode
             into == IF 200 <= code THEN "success" ELSE "failure"
             v    == IF into = "success" THEN successV ELSE failureV
             u    == IF r.Unmarshaler = "nil" THEN "default" ELSE r.Unmarshaler
         IN [respNil |-> FALSE, body |-> d.resp.body,
             err |-> IF v = "nil" THEN FALSE
                     ELSE UnmarshalErr(u, d.resp.body, d.resp.ContentType, v),
             closed |-> TRUE, reads |-> 1,
             target |-> IF v = "nil" THEN "none" ELSE into,
             unmarshaler |-> IF v = "nil" THEN "none" ELSE u]

\* Dispatch closing the body after the read instead of deferring the close
DispatchCloseAfterRead(r, d, successV, failureV) ==
    IF d.err THEN [NoOutcome EXCEPT !.respNil = d.resp.nil, !.err = TRUE]
    ELSE IF d.resp.readErr
    THEN [NoOutcome EXCEPT !.respNil = FALSE, !.err = TRUE, !.closed = FALSE,
                           !.reads = 1]
    ELSE LET code == d.resp.StatusCode
             into == IF 200 <= code /\ code <= 299 THEN "success" ELSE "failure"
             v    == IF into = "success" THEN successV ELSE failureV
             u    == IF r.Unmarshaler = "nil" THEN "default" ELSE r.Unmarshaler
         IN [respNil |-> FALSE, body |-> d.resp.body,
             err |-> IF v = "nil" THEN FALSE
                     ELSE UnmarshalErr(u, d.resp.body, d.resp.ContentType, v),
             closed |-> TRUE, reads |-> 1,
             target |-> IF v = "nil" THEN "none" ELSE into,
             unmarshaler |-> IF v = "nil" THEN "none" ELSE u]

\* Dispatch returning no body beside a decode error
DispatchDropBody(r, d, successV, failureV) ==
    IF d.err THEN [NoOutcome EXCEPT !.respNil = d.resp.nil, !.err = TRUE]
    ELSE IF d.resp.readErr
    THEN [NoOutcome EXCEPT !.respNil = FALSE, !.err = TRUE, !.closed = TRUE,
                           !.reads = 1]
    ELSE LET code == d.resp.StatusCode
             into == IF 200 <= code /\ code <= 299 THEN "success" ELSE "failure"
             v    == IF into = "success" THEN successV ELSE failureV
             u    == IF r.Unmarshaler = "nil" THEN "default" ELSE r.Unmarshaler
             err  == IF v = "nil" THEN FALSE
                     ELSE UnmarshalErr(u, d.resp.body, d.resp.ContentType, v)
         IN [respNil |-> FALSE, body |-> IF err THEN "" ELSE d.resp.body,
             err |-> err, closed |-> TRUE, reads |-> 1,
             target |-> IF v = "nil" THEN "none" ELSE into,
             unmarshaler |-> IF v = "nil" THEN "none" ELSE u]

\* the body read, the target chosen by the status, the body decoded with the
\* receiver's Unmarshaler: what ReceiveFullContext does with DoContext's result
Dispatch(r, d, successV, failureV) ==
    IF d.err THEN [NoOutcome EXCEPT !.respNil = d.resp.nil, !.err = TRUE]
    ELSE IF d.resp.readErr
    THEN [NoOutcome EXCEPT !.respNil = FALSE, !.err = TRUE, !.closed = TRUE,
                           !.reads = 1]
    ELSE LET code == d.resp.StatusCode
             into == IF 200 <= code /\ code <= 299 THEN "success" ELSE "failure"
             v    == IF into = "success" THEN successV ELSE failureV
             u    == IF r.Unmarshaler = "nil" THEN "default" ELSE r.Unmarshaler
         IN [respNil |-> FALSE, body |-> d.resp.body,
             err |-> IF v = "nil" THEN FALSE
                     ELSE UnmarshalErr(u, d.resp.body, d.resp.ContentType, v),
             closed |-> TRUE, reads |-> 1,
             target |-> IF v = "nil" THEN "none" ELSE into,
             unmarshaler |-> IF v = "nil" THEN "none" ELSE u]

\* (*Requests).ReceiveFullContext
ReceiveFullContext(h, r, ctx, successV, failureV, opts, answer) ==
    The({The({[h |-> d.h, src |-> d.src, reqs |-> d.reqs, req |-> d.req,
               sent |-> d.sent, resp |-> d.resp, err |-> out.err, out |-> out,
               by |-> d.by, trace |-> d.trace] :
                    out \in {Dispatch(r, d, successV, failureV)}}) :
            d \in {DoContext(h, r, ctx, opts, answer)}})

\* (*Requests).ReceiveContext: the options are not passed on
ReceiveContext(h, r, ctx, successV, opts, answer) ==
    ReceiveFullContext(h, r, ctx, successV, "nil", <<>>, answer)

\* (*Requests).Receive
Receive(h, r, successV, opts, answer) ==
    ReceiveFullContext(h, r, "background", successV, "nil", opts, answer)

\* (*Requests).ReceiveFull
ReceiveFull(h, r, successV, failureV, opts, answer) ==
    ReceiveFullContext(h, r, "background", successV, failureV, opts, answer)

\* what the garbage collector leaves of memory h1 when nothing allocated since
\* memory h0 is referenced any more: the objects of h0, as h1 has them
Collect(h0, h1) ==
    [arrs |-> SubSeq(h1.arrs, 1, Len(h0.arrs)),
     maps |-> SubSeq(h1.maps, 1, Len(h0.maps))]

\* a Requests as its reader sees it
RequestsView(h, r) ==
    [alive |-> r.alive, Doer |-> r.Doer, Middleware |-> Read(h, r.Middleware),
     Method |-> r.Method, URL |-> r.URL, Header |-> View(h, r.Header),
     ContentLength |-> r.ContentLength, Host |-> r.Host,
     Trailer |-> View(h, r.Trailer), QueryParams |-> View(h, r.QueryParams),
     Marshaler |-> r.Marshaler, Unmarshaler |-> r.Unmarshaler, Body |-> r.Body]

\* ------------------------------------------------------------------------
\* the state
\* ------------------------------------------------------------------------

VARIABLES
    mem,    \* the backing arrays and map objects
    cfg,    \* the Requests values the program holds, by name
    last,   \* the last call: its receiver, arguments and results
    steps   \* the number of calls made

vars == <<mem, cfg, last, steps>>

\* the bounds of the model: the calls of one behaviour of the clone-and-apply
\* specification, and the sends of one behaviour of the specification of sends
MaxSteps == 2
MaxSends == 1

Names == {"P", "A", "B"}

\* ------------------------------------------------------------------------
\* NewClient and its options (package clients)
\* ------------------------------------------------------------------------

\* a nil http.RoundTripper, and a nil *http.Client
NilTransport ==
    [kind |-> "nil", Proxy |-> [by |-> "none", u |-> NilURL],
     TLSClientConfig |-> [nil |-> TRUE, InsecureSkipVerify |-> FALSE]]

NilClient == [nil |-> TRUE, Transport |-> NilTransport, Timeout |-> 0]

\* opt.Apply(c, t): Timeout and an option that assigns c.Transport change
\* the client; ProxyURL, ProxyFunc and SkipVerify change
\* the transport
ApplyClientOption(c, t, o) ==
    CASE o.op = "Timeout" -> [c |-> [c EXCEPT !.Timeout = 1], t |-> t, err |-> FALSE]
      [] o.op = "Transport" ->
            [c |-> [c EXCEPT !.Transport = [NilTransport EXCEPT !.kind = "custom"]],
             t |-> t, err |-> FALSE]
      [] o.op = "ProxyURL" ->
            The({IF pr.err THEN [c |-> c, t |-> t, err |-> TRUE]
                 ELSE [c |-> c,
                       t |-> [t EXCEPT !.Proxy = [by |-> "ProxyURL", u |-> pr.u]],
                       err |-> FALSE] :
                    pr \in {Parse(o.v)}})
      [] o.op = "ProxyFunc" ->
            [c |-> c, t |-> [t EXCEPT !.Proxy = [by |-> "ProxyFunc", u |-> NilURL]],
             err |-> FALSE]
      [] o.op = "SkipVerify" ->
            [c |-> c,
             t |-> [t EXCEPT !.TLSClientConfig =
                                 [nil |-> FALSE, InsecureSkipVerify |-> TRUE]],
             err |-> FALSE]

\* the loop of NewClient from option i on: the client, the transport, the
\* error and the number of options applied
RECURSIVE ApplyClientOptions(_, _, _, _)
ApplyClientOptions(c, t, opts, i) ==
    IF i > Len(opts) THEN [c |-> c, t |-> t, err |-> FALSE, errAt |-> 0]
    ELSE The({IF a.err THEN [c |-> c, t |-> t, err |-> TRUE, errAt |-> i]
              ELSE ApplyClientOptions(a.c, a.t, opts, i + 1) :
                a \in {ApplyClientOption(c, t, opts[i])}})

\* NewClient(opts...): the transport built, the options applied to a new
\* client and to the transport, and the transport put into the client when
\* the client has one
NewClient(opts) ==
    The({IF a.err THEN [c |-> NilClient, err |-> TRUE, errAt |-> a.errAt]
         ELSE [c |-> IF a.c.Transport.kind # "nil" THEN [a.c EXCEPT !.Transport = a.t]
                     ELSE a.c,
               err |-> FALSE, errAt |-> 0] :
            a \in {ApplyClientOptions(
                       [NilClient EXCEPT !.nil = FALSE],
                       [NilTransport EXCEPT
                            !.kind = "built",
                            !.Proxy = [by |-> "ProxyFromEnvironment", u |-> NilURL]],
                       opts, 1)}})

\* the edits made to the requests held, in one behaviour of the specification
\* of requests held
MaxEdits == 2

\* what is recorded of a call: the method, the receiver, the name the result
\* is held under, the arguments, the error, the options Apply invoked, the
\* requests held, the With calls running (where each is, what P read as when
\* it started and what the call alone would return), and of
\* a send the effective Requests, the marshaler called, the request, whether
\* it reached the Doer, who saw the request and the response, the response
\* and what the Receive method returned
NoCall ==
    [op |-> "none", recv |-> "P", dst |-> "P", opts |-> <<>>, err |-> FALSE,
     errAt |-> 0, log |-> <<>>, by |-> "none", trace |-> <<>>, ctx |-> "background",
     held |-> <<>>, on |-> 0, drained |-> {}, client |-> NilClient,
     run |-> [g \in {"A", "B"} |->
                [pc |-> -1, opts |-> <<>>,
                 src |-> RequestsView(EmptyMem, NoRequests),
                 alone |-> RequestsView(EmptyMem, NoRequests)]],
     reqs |-> RequestsView(EmptyMem, NoRequests),
     req |-> RequestView(EmptyMem, NoRequest), sent |-> FALSE,
     targets |-> <<"nil", "nil">>, resp |-> NoResponse, out |-> NoOutcome]

\* the inputs of the model: the references, and the option values that calls
\* are given
Values(k, vs) == [kind |-> "values", kv |-> [j \in {k} |-> vs]]

Ref ==
    [Bad        |-> <<"1", ":">>,
     Base       |-> <<"/", "/", "a", "/">>,
     Query      |-> <<"/", "/", "a", "/", "b", "?", "b", "=", "1">>,
     ForceQuery |-> <<"/", "/", "a", "?">>,
     Fragment   |-> <<"/", "b", "?", "a", "#", "b">>]

Arg ==
    [AddX     |-> Opt("AddHeader", <<"a">>, <<"x">>, <<>>),
     AddY     |-> Opt("AddHeader", <<"A">>, <<"y">>, <<>>),
     SetX     |-> Opt("Header", <<"a">>, <<"x">>, <<>>),
     DelA     |-> Opt("DeleteHeader", <<"a">>, <<>>, <<>>),
     Query1   |-> Opt("QueryParams", <<>>, <<>>, <<Values(<<"a">>, <<<<"1">>>>)>>),
     Query2   |-> Opt("QueryParams", <<>>, <<>>,
                      <<[kind |-> "nil", kv |-> <<>>], Values(<<"a">>, <<<<"2">>>>)>>),
     QueryBad |-> Opt("QueryParams", <<>>, <<>>,
                      <<Values(<<"a">>, <<<<"1">>>>), [kind |-> "bad", kv |-> <<>>]>>),
     QueryAB  |-> Opt("QueryParams", <<>>, <<>>,
                      <<Values(<<"b">>, <<<<"a", "&">>, <<>>>>),
                        Values(<<"a">>, <<<<"1", " ">>>>)>>),
     UseM     |-> Opt("Use", <<>>, <<>>, <<<<"m">>>>),
     UseN     |-> Opt("Use", <<>>, <<>>, <<<<"n">>>>),
     PostB    |-> Opt("Method", <<>>, POST, <<<<"b">>>>),
     PostBad  |-> Opt("Method", <<>>, POST, <<Ref.Bad>>),
     SetBadMethod |-> Opt("Method", <<>>, <<"B", " ", "D">>, <<>>),
     SetURL   |-> Opt("URL", <<>>, Ref.Base, <<>>),
     SetQueryURL      |-> Opt("URL", <<>>, Ref.Query, <<>>),
     SetForceQueryURL |-> Opt("URL", <<>>, Ref.ForceQuery, <<>>),
     SetFragmentURL   |-> Opt("URL", <<>>, Ref.Fragment, <<>>),
     RelBad   |-> Opt("RelativeURL", <<>>, Ref.Bad, <<>>),
     SetDoer  |-> OptOf("WithDoer", "d1"),
     SetUnmarshaler |-> OptOf("Unmarshaler", "json"),
     SetStruct      |-> OptBody([kind |-> "struct", val |-> <<"v">>]),
     SetUnencodable |-> OptBody([kind |-> "struct", val |-> <<"unencodable">>]),
     SetString      |-> OptBody([kind |-> "string", val |-> <<"h", "i">>]),
     SetBytes       |-> OptBody([kind |-> "bytes", val |-> <<"b", "y", "e">>]),
     SetReader      |-> OptBody([kind |-> "reader", val |-> <<"r">>]),
     SetNilBody     |-> OptBody(NilBody),
     SetXML         |-> OptOf("Marshaler", "xml"),
     SetFailing     |-> OptOf("Marshaler", "failing"),
     SetCustom      |-> OptOf("Marshaler", "custom"),
     SetCT    |-> Opt("Header", HeaderContentType, <<"t">>, <<>>),
     AddCT    |-> Opt("AddHeader", HeaderContentType, <<"u">>, <<>>),
     Get      |-> Opt("Method", <<>>, GET, <<>>),
     Delete   |-> Opt("Method", <<>>, <<"D", "E", "L", "E", "T", "E">>, <<<<"a">>>>)]

Opts ==
    {Arg.AddX, Arg.AddY, Arg.SetX, Arg.DelA, Arg.Query1, Arg.Query2, Arg.UseN,
     Arg.RelBad}

\* the option lists of a call: none, one option, lists in which an option
\* fails after one that succeeded and before one never reached, and a list
\* of options that all succeed
OptSeqs ==
    {<<>>} \cup {<<o>> : o \in Opts}
    \cup {<<Arg.AddX, Arg.RelBad, Arg.UseM>>,
          <<Arg.Query1, Arg.QueryBad, Arg.AddY>>,
          <<Arg.UseN, Arg.PostBad>>,
          <<Arg.PostB, Arg.SetX, Arg.Query2, Arg.UseM>>}

\* the option lists New is called with to build P
NewSeqs ==
    { <<>>,
      <<Arg.AddX, Arg.AddY, Arg.AddX>>,
      <<Arg.Query1, Arg.Query1, Arg.Query1>>,
      <<Arg.UseM, Arg.UseN, Arg.UseM>>,
      <<Arg.SetURL, Arg.PostB, Arg.AddX, Arg.Query1, Arg.UseM>> }

\* r.Trailer = http.Header{"A": {"t"}} on the P built with a URL: the
\* exported field assigned, there being no option for it
SetTrailer(a, opts) ==
    IF Len(opts) > 0 /\ opts[1].op = "URL" THEN
        The({[a EXCEPT !.h = MapSet(mk.h, mk.m, <<"A">>, <<"t">>),
                       !.r.Trailer = mk.m] :
                mk \in {MakeMap(a.h)}})
    ELSE a

\* P, err := New(opts...)
Init ==
    \E opts \in NewSeqs :
        \E a \in {SetTrailer(ApplyOpts(EmptyMem, ZeroRequests, opts), opts)} :
        /\ mem = a.h
        /\ cfg = [n \in Names |-> IF n = "P" THEN a.r ELSE NoRequests]
        /\ last = [NoCall EXCEPT !.op = "New", !.opts = opts, !.err = a.err,
                                  !.errAt = a.errAt, !.log = a.log]
        /\ steps = 0

\* the name the next Requests made is held under
Fresh(d) == d # "P" /\ ~cfg[d].alive /\ (d = "B" => cfg["A"].alive)

\* c.Apply(opts...)
Apply(c, opts) ==
    /\ steps < MaxSteps
    /\ cfg[c].alive
    /\ \E a \in {ApplyOpts(mem, cfg[c], opts)} :
        /\ mem' = a.h
        /\ cfg' = [cfg EXCEPT ![c] = a.r]
        /\ last' = [NoCall EXCEPT !.op = "Apply", !.recv = c, !.dst = c,
                                   !.opts = opts, !.err = a.err,
                                   !.errAt = a.errAt, !.log = a.log]
    /\ steps' = steps + 1

\* d := c.Clone()
CloneTo(c, d) ==
    /\ steps < MaxSteps
    /\ cfg[c].alive
    /\ Fresh(d)
    /\ \E a \in {Clone(mem, cfg[c])} :
        /\ mem' = a.h
        /\ cfg' = [cfg EXCEPT ![d] = a.r]
        /\ last' = [NoCall EXCEPT !.op = "Clone", !.recv = c, !.dst = d]
    /\ steps' = steps + 1

\* d, err := c.With(opts...)
With(c, d, opts) ==
    /\ steps < MaxSteps
    /\ cfg[c].alive
    /\ Fresh(d)
    /\ \E a \in {WithOpts(mem, cfg[c], opts)} :
        /\ mem' = IF a.err THEN Collect(mem, a.h) ELSE a.h
        /\ cfg' = [cfg EXCEPT ![c] = a.src, ![d] = a.r]
        /\ last' = [NoCall EXCEPT !.op = "With", !.recv = c, !.dst = d,
                                   !.opts = opts, !.err = a.err,
                                   !.errAt = a.errAt, !.log = a.log]
    /\ steps' = steps + 1

Next ==
    \/ \E c \in Names, opts \in OptSeqs : Apply(c, opts)
    \/ \E c \in Names, d \in Names : CloneTo(c, d)
    \/ \E c \in Names, d \in Names, opts \in OptSeqs : With(c, d, opts)

Spec == Init /\ [][Next]_vars

\* ------------------------------------------------------------------------
\* the specification of sends: P built by New, then requests built and sent
\* ------------------------------------------------------------------------

NewSeqsSend ==
    { <<>>,
      <<Arg.AddX, Arg.AddY, Arg.AddX>>,
      <<Arg.SetQueryURL, Arg.Query1>>,
      <<Arg.SetForceQueryURL, Arg.QueryAB, Arg.SetStruct>>,
      <<Arg.SetFragmentURL, Arg.PostB, Arg.UseM, Arg.SetString>> }

\* the option lists of a call that builds a request, and those of a call
\* that also receives the response
OptSeqsSend ==
    { <<>>, <<Arg.AddX>>, <<Arg.Query2>>, <<Arg.QueryAB>>, <<Arg.UseN>>,
      <<Arg.PostB>>, <<Arg.SetDoer>>, <<Arg.SetStruct>>, <<Arg.AddY, Arg.RelBad>>,
      <<Arg.SetBadMethod>>, <<Arg.SetUnencodable>> }

OptSeqsReceive == { <<>>, <<Arg.SetUnmarshaler>>, <<Arg.RelBad>> }

Answers ==
    { [NoResponse EXCEPT !.err = TRUE],
      Response(200, "application/json", "json", FALSE),
      Response(500, "application/xml", "junk", FALSE),
      Response(204, "text/plain", "json", TRUE) }

\* what the Doer answers a call that does not read the response
AnswersDo ==
    { [NoResponse EXCEPT !.err = TRUE],
      Response(200, "application/json", "json", FALSE) }

Targets == {<<"ptr", "nil">>, <<"ptr", "ptr">>, <<"nil", "ptr">>}

InitSend ==
    \E opts \in NewSeqsSend :
        \E a \in {SetTrailer(ApplyOpts(EmptyMem, ZeroRequests, opts), opts)} :
        /\ mem = a.h
        /\ cfg = [n \in Names |-> IF n = "P" THEN a.r ELSE NoRequests]
        /\ last = [NoCall EXCEPT !.op = "New", !.opts = opts, !.err = a.err,
                                  !.errAt = a.errAt, !.log = a.log]
        /\ steps = 0

\* the state after a call that built a request: the receiver as the call
\* left it, the memory without what the call allocated, the call recorded
Built(op, c, ctx, opts, a) ==
    /\ mem' = Collect(mem, a.h)
    /\ cfg' = [cfg EXCEPT ![c] = a.src]
    /\ last' = [NoCall EXCEPT !.op = op, !.recv = c, !.dst = c, !.opts = opts,
                               !.ctx = ctx, !.err = a.err, !.reqs = RequestsView(a.h, a.reqs),
                               !.req = RequestView(a.h, a.req), !.by = a.by]
    /\ steps' = steps + 1

\* the state after a call that sent a request
Sent(op, c, ctx, opts, tg, a) ==
    /\ mem' = Collect(mem, a.h)
    /\ cfg' = [cfg EXCEPT ![c] = a.src]
    /\ last' = [NoCall EXCEPT !.op = op, !.recv = c, !.dst = c, !.opts = opts,
                               !.ctx = ctx, !.err = a.err, !.reqs = RequestsView(a.h, a.reqs),
                               !.req = RequestView(a.h, a.req), !.sent = a.sent,
                               !.targets = tg, !.resp = a.resp, !.out = a.out,
                               !.by = a.by, !.trace = a.trace]
    /\ steps' = steps + 1

\* req, err := c.RequestContext(ctx, opts...)
CallRequestContext(c, ctx, opts) ==
    /\ steps < MaxSends /\ cfg[c].alive
    /\ \E a \in {RequestContext(mem, cfg[c], ctx, opts)} :
        Built("RequestContext", c, ctx, opts, a)

\* req, err := c.Request(opts...)
CallRequest(c, opts) ==
    /\ steps < MaxSends /\ cfg[c].alive
    /\ \E a \in {Request(mem, cfg[c], opts)} : Built("Request", c, "background", opts, a)

\* resp, err := c.DoContext(ctx, opts...)
CallDoContext(c, ctx, opts, answer) ==
    /\ steps < MaxSends /\ cfg[c].alive
    /\ \E a \in {DoContext(mem, cfg[c], ctx, opts, answer)} :
        Sent("DoContext", c, ctx, opts, <<"nil", "nil">>, a)

\* resp, err := c.Do(opts...)
CallDo(c, opts, answer) ==
    /\ steps < MaxSends /\ cfg[c].alive
    /\ \E a \in {Do(mem, cfg[c], opts, answer)} :
        Sent("Do", c, "background", opts, <<"nil", "nil">>, a)

\* resp, body, err := c.ReceiveFullContext(ctx, successV, failureV, opts...)
CallReceiveFullContext(c, ctx, tg, opts, answer) ==
    /\ steps < MaxSends /\ cfg[c].alive
    /\ \E a \in {ReceiveFullContext(mem, cfg[c], ctx, tg[1], tg[2], opts, answer)} :
        Sent("ReceiveFullContext", c, ctx, opts, tg, a)

\* resp, body, err := c.ReceiveFull(successV, failureV, opts...)
CallReceiveFull(c, tg, opts, answer) ==
    /\ steps < MaxSends /\ cfg[c].alive
    /\ \E a \in {ReceiveFull(mem, cfg[c], tg[1], tg[2], opts, answer)} :
        Sent("ReceiveFull", c, "background", opts, tg, a)

\* resp, body, err := c.ReceiveContext(ctx, successV, opts...)
CallReceiveContext(c, ctx, tg, opts, answer) ==
    /\ steps < MaxSends /\ cfg[c].alive
    /\ \E a \in {ReceiveContext(mem, cfg[c], ctx, tg[1], opts, answer)} :
        Sent("ReceiveContext", c, ctx, opts, <<tg[1], "nil">>, a)

\* resp, body, err := c.Receive(successV, opts...)
CallReceive(c, tg, opts, answer) ==
    /\ steps < MaxSends /\ cfg[c].alive
    /\ \E a \in {Receive(mem, cfg[c], tg[1], opts, answer)} :
        Sent("Receive", c, "background", opts, <<tg[1], "nil">>, a)

NextSend ==
    \/ \E opts \in OptSeqsSend : CallRequestContext("P", "c1", opts)
    \/ \E opts \in OptSeqsSend : CallRequest("P", opts)
    \/ \E opts \in OptSeqsSend, answer \in AnswersDo : CallDoContext("P", "c1", opts, answer)
    \/ \E opts \in OptSeqsSend, answer \in AnswersDo : CallDo("P", opts, answer)
    \/ \E opts \in OptSeqsReceive, answer \in Answers, tg \in Targets :
        CallReceiveFullContext("P", "c1", tg, opts, answer)
    \/ \E opts \in OptSeqsReceive, answer \in Answers, tg \in Targets :
        CallReceiveFull("P", tg, opts, answer)
    \/ \E opts \in OptSeqsReceive, answer \in Answers, tg \in Targets :
        CallReceiveContext("P", "c1", tg, opts, answer)
    \/ \E opts \in OptSeqsReceive, answer \in Answers, tg \in Targets :
        CallReceive("P", tg, opts, answer)

SpecSend == InitSend /\ [][NextSend]_vars

\* ------------------------------------------------------------------------
\* the specification of materialization: P built by New with a body, a
\* marshaler, a Content-Type, a method, and its ContentLength assigned or
\* not; then requests built from it, and sent
\* ------------------------------------------------------------------------

\* P, err := New(opts...); P.ContentLength = n
InitBuild ==
    \E opts \in { <<>>, <<Arg.SetString>>, <<Arg.SetBytes>>, <<Arg.SetReader>>,
                   <<Arg.SetStruct>>, <<Arg.SetStruct, Arg.SetXML>>,
                   <<Arg.SetStruct, Arg.SetCT>>,
                   <<Arg.SetString, Arg.SetXML, Arg.SetCT, Arg.AddCT>>,
                   <<Arg.SetUnencodable>>, <<Arg.SetFailing, Arg.SetStruct>>,
                   <<Arg.PostB, Arg.Get, Arg.SetStruct>>,
                   <<Arg.SetBadMethod, Arg.SetBytes>> } :
    \E n \in {0, 7, -1} :
        \E a \in {ApplyOpts(EmptyMem, ZeroRequests, opts)} :
        /\ mem = a.h
        /\ cfg = [c \in Names |-> IF c = "P" THEN [a.r EXCEPT !.ContentLength = n]
                                  ELSE NoRequests]
        /\ last = [NoCall EXCEPT !.op = "New", !.opts = opts, !.err = a.err,
                                  !.errAt = a.errAt, !.log = a.log]
        /\ steps = 0

NextBuild ==
    \/ \E opts \in { <<>>, <<Arg.SetXML>>, <<Arg.SetCT>>, <<Arg.SetCT, Arg.AddCT>>,
                      <<Arg.SetStruct>>, <<Arg.SetString>>, <<Arg.SetNilBody>>,
                      <<Arg.PostB>>, <<Arg.Get, Arg.Delete>>, <<Arg.SetBadMethod>>,
                      <<Arg.SetFailing>>, <<Arg.SetCustom>> } :
        CallRequestContext("P", "c1", opts)
    \/ \E opts \in {<<>>, <<Arg.UseM, Arg.SetBadMethod>>, <<Arg.SetFailing>>} :
        \/ \E answer \in AnswersDo : CallDoContext("P", "c1", opts, answer)
        \/ CallReceiveFullContext("P", "c1", <<"ptr", "ptr">>, opts,
                                  Response(200, "application/json", "json", FALSE))

SpecBuild == InitBuild /\ [][NextBuild]_vars

\* ------------------------------------------------------------------------
\* the specification of URLs: an empty P extended by RelativeURL, reference
\* after reference, and beside it an empty A given the same references, the
\* first of them by URL
\* ------------------------------------------------------------------------

\* the length of the chain of references
MaxChain == 3

Refs ==
    { <<>>,
      <<"a">>,
      <<"b", "/">>,
      <<"/", "b">>,
      <<".", ".">>,
      <<".", "/", "a">>,
      <<"/", "/", "a">>,
      <<"/", "/", "a", "/", "b">>,
      <<"/", "/", "a", "/", "b", "/">>,
      <<"a", ":", "/", "/", "b", "/", "a", "/">>,
      <<"a", ":", "/", "/", "b", "/", ".", ".", "/", "b">>,
      <<"a", ":", "b">>,
      <<"a", ":", "/", "b", "/">>,
      <<"?", "a">>,
      <<"#", "a">>,
      <<"/", "/", "a", "/", "b", "?", "a">>,
      <<"/", "/", "a", "/", "?">>,
      <<"1", ":">> }

Extend(p) == Opt("RelativeURL", <<>>, p, <<>>)

\* P := New(); A := New()
InitURL ==
    /\ mem = EmptyMem
    /\ cfg = [n \in Names |-> IF n \in {"P", "A"} THEN ZeroRequests ELSE NoRequests]
    /\ last = [NoCall EXCEPT !.op = "New"]
    /\ steps = 0

\* P.Apply(RelativeURL(p))
ExtendP(p) ==
    /\ steps < MaxChain
    /\ last.op = "New" \/ last.recv = "A"
    /\ \E a \in {ApplyOpts(mem, cfg["P"], <<Extend(p)>>)} :
        /\ mem' = a.h
        /\ cfg' = [cfg EXCEPT !["P"] = a.r]
        /\ last' = [NoCall EXCEPT !.op = "Apply", !.recv = "P", !.dst = "P",
                                   !.opts = <<Extend(p)>>, !.err = a.err,
                                   !.errAt = a.errAt, !.log = a.log]
    /\ steps' = steps

\* A.Apply(URL(p)) for the first reference, A.Apply(RelativeURL(p)) for the
\* later ones, p being the reference P was just given
ExtendA ==
    /\ last.op = "Apply" /\ last.recv = "P"
    /\ \E o \in {IF steps = 0 THEN [last.opts[1] EXCEPT !.op = "URL"]
                 ELSE last.opts[1]} :
       \E a \in {ApplyOpts(mem, cfg["A"], <<o>>)} :
        /\ mem' = a.h
        /\ cfg' = [cfg EXCEPT !["A"] = a.r]
        /\ last' = [NoCall EXCEPT !.op = "Apply", !.recv = "A", !.dst = "A",
                                   !.opts = <<o>>, !.err = a.err,
                                   !.errAt = a.errAt, !.log = a.log]
    /\ steps' = steps + 1

NextURL ==
    \/ \E p \in Refs : ExtendP(p)
    \/ ExtendA

SpecURL == InitURL /\ [][NextURL]_vars

\* ------------------------------------------------------------------------
\* the specification of headers: the empty P given header options, one
\* option a call
\* ------------------------------------------------------------------------

\* the number of options applied
MaxOptions == 3

HeaderOpts ==
    { Arg.AddX, Arg.AddY, Arg.DelA,
      Opt("Header", <<"A">>, <<"z">>, <<>>),
      Opt("AddHeader", <<"a", " ", "b">>, <<"x">>, <<>>),
      Opt("AddHeader", <<"A", " ", "b">>, <<"y">>, <<>>),
      Opt("Header", <<"a", " ", "b">>, <<"z">>, <<>>),
      Opt("DeleteHeader", <<"A", " ", "b">>, <<>>, <<>>),
      Opt("AddHeader", Authorization, <<"x">>, <<>>),
      Opt("BasicAuth", <<"a">>, <<"b">>, <<>>),
      Opt("BearerAuth", <<>>, <<"t">>, <<>>),
      Opt("BearerAuth", <<>>, <<>>, <<>>),
      Arg.SetURL, Arg.RelBad, Arg.PostBad,
      Opt("URL", <<>>, Ref.Bad, <<>>),
      Opt("RelativeURL", <<>>, <<":", "a">>, <<>>) }

\* P.Apply(o)
ApplyOption(o) ==
    /\ steps < MaxOptions
    /\ \E a \in {ApplyOpts(mem, cfg["P"], <<o>>)} :
        /\ mem' = a.h
        /\ cfg' = [cfg EXCEPT !["P"] = a.r]
        /\ last' = [NoCall EXCEPT !.op = "Apply", !.opts = <<o>>, !.err = a.err,
                                   !.errAt = a.errAt, !.log = a.log]
    /\ steps' = steps + 1

NextHeader == \E o \in HeaderOpts : ApplyOption(o)

SpecHeader == InitURL /\ [][NextHeader]_vars

\* ------------------------------------------------------------------------
\* the specification of receiving: the empty P and A, and P receiving
\* responses of every kind into targets of every kind
\* ------------------------------------------------------------------------

NextReceive ==
    \E opts \in {<<>>, <<Arg.SetUnmarshaler>>} :
    \E tg \in {"ptr", "nil", "str"} \X {"ptr", "nil"} :
    \E answer \in { [NoResponse EXCEPT !.err = TRUE],
                     Response(200, "application/json", "json", FALSE),
                     Response(299, "application/xml", "xml", FALSE),
                     Response(199, "application/json", "json", FALSE),
                     Response(300, "application/json", "junk", FALSE),
                     Response(500, "application/xml", "xml", FALSE),
                     Response(200, "application/json", "junk", FALSE),
                     Response(206, "", "json", FALSE),
                     Response(200, "application/json, application/xml", "json", FALSE),
                     Response(404, "text/plain", "junk", FALSE),
                     Response(204, "application/json", "json", TRUE) } :
        \/ CallReceiveFullContext("P", "c1", tg, opts, answer)
        \/ CallReceiveFull("P", tg, opts, answer)

SpecReceive == InitURL /\ [][NextReceive]_vars

\* ------------------------------------------------------------------------
\* the specification of the package-level functions: each builds a Requests
\* with New(opts...) and calls the method of its name on it; beside them
\* the methods that take a context, called on the empty P
\* ------------------------------------------------------------------------

\* the package-level function f given a context, targets and options, and
\* answered by the Doer
PackageFunction(f, h, ctx, successV, failureV, opts, answer) ==
    The({IF n.err
         THEN [h |-> n.h, reqs |-> NoRequests, req |-> NoRequest, sent |-> FALSE,
               resp |-> NoResponse, err |-> TRUE, out |-> NoOutcome,
               by |-> "none", trace |-> <<>>]
         ELSE The({[h |-> a.h, reqs |-> a.reqs, req |-> a.req, sent |-> a.sent,
                    resp |-> a.resp, err |-> a.err, out |-> a.out, by |-> a.by,
                    trace |-> a.trace] :
                a \in {CASE f = "sling.RequestContext" ->
                             The({[h |-> q.h, reqs |-> q.reqs, req |-> q.req,
                                   sent |-> FALSE, resp |-> NoResponse,
                                   err |-> q.err, out |-> NoOutcome, by |-> q.by,
                                   trace |-> <<>>] :
                                q \in {RequestContext(n.h, n.r, ctx, <<>>)}})
                         [] f = "sling.DoContext" ->
                             DoContext(n.h, n.r, ctx, opts, answer)
                         [] f = "sling.ReceiveContext" ->
                             ReceiveContext(n.h, n.r, ctx, successV, opts, answer)
                         [] f = "sling.ReceiveFullContext" ->
                             ReceiveFullContext(n.h, n.r, ctx, successV, failureV,
                                                opts, answer)}}) :
            n \in {ApplyOpts(h, ZeroRequests, opts)}})

NextPackage ==
    \E ctx \in {"c1", "c2"} :
    \E opts \in { <<>>, <<Arg.SetURL, Arg.Query1>>, <<Arg.UseM, Arg.UseN>>,
                   <<Arg.SetURL, Arg.PostB>>, <<Arg.AddX>>, <<Arg.SetX, Arg.SetDoer>>,
                   <<Arg.Query1, Arg.RelBad>> } :
        \/ \E answer \in AnswersDo :
           \E f \in {"sling.RequestContext", "sling.DoContext",
                      "sling.ReceiveContext", "sling.ReceiveFullContext"} :
            /\ steps < MaxSends
            /\ \E a \in {PackageFunction(f, mem, ctx, "ptr", "ptr", opts, answer)} :
                /\ mem' = Collect(mem, a.h)
                /\ last' = [NoCall EXCEPT !.op = f, !.opts = opts, !.ctx = ctx,
                                           !.err = a.err,
                                           !.reqs = RequestsView(a.h, a.reqs),
                                           !.req = RequestView(a.h, a.req),
                                           !.sent = a.sent,
                                           !.targets = <<"ptr", "ptr">>,
                                           !.resp = a.resp, !.out = a.out,
                                           !.by = a.by, !.trace = a.trace]
            /\ steps' = steps + 1
            /\ UNCHANGED cfg
        \/ CallRequestContext("P", ctx, opts)
        \/ \E answer \in AnswersDo : CallDoContext("P", ctx, opts, answer)
        \/ \E answer \in AnswersDo :
            CallReceiveContext("P", ctx, <<"ptr", "nil">>, opts, answer)
        \/ \E answer \in AnswersDo :
            CallReceiveFullContext("P", ctx, <<"ptr", "ptr">>, opts, answer)

SpecPackage == InitURL /\ [][NextPackage]_vars

\* ------------------------------------------------------------------------
\* the specification of requests held: P built by New with a header, a
\* trailer and a body, two requests made from it and kept, and the holder
\* of a request adding to and deleting from its header and trailer and
\* reading its body
\* ------------------------------------------------------------------------

InitHeld ==
    \E opts \in { <<Arg.SetURL, Arg.AddX, Arg.AddY, Arg.AddX, Arg.SetReader>>,
                   <<Arg.SetURL, Arg.AddX, Arg.SetString>>,
                   <<Arg.SetURL, Arg.Query1, Arg.SetStruct>>,
                   <<Arg.AddX, Arg.SetBytes>> } :
        \E a \in {SetTrailer(ApplyOpts(EmptyMem, ZeroRequests, opts), opts)} :
        /\ mem = a.h
        /\ cfg = [n \in Names |-> IF n = "P" THEN a.r ELSE NoRequests]
        /\ last = [NoCall EXCEPT !.op = "New", !.opts = opts]
        /\ steps = 0

NextHeld ==
    \* q, err := P.RequestContext(ctx), twice
    \/ /\ Len(last.held) < 2
       /\ \E a \in {RequestContext(mem, cfg["P"], "c1", <<>>)} :
            /\ ~a.err
            /\ mem' = a.h
            /\ last' = [last EXCEPT !.op = "RequestContext",
                                    !.on = Len(last.held) + 1,
                                    !.held = Append(@, a.req),
                                    !.req = RequestView(a.h, a.req)]
       /\ UNCHANGED <<cfg, steps>>
    \/ \E i \in 1..2 :
        /\ Len(last.held) = 2 /\ steps < MaxEdits
        /\ steps' = steps + 1
        /\ UNCHANGED cfg
        /\ \/ \* q.Header.Add(k, v)
              \E k \in {<<"A">>, HeaderContentType}, v \in {<<"x">>, <<"y">>} :
                /\ mem' = MapAdd(mem, last.held[i].Header, k, v)
                /\ last' = [last EXCEPT !.op = "Header.Add", !.on = i]
           \/ \* q.Header.Del(k)
              \E k \in {<<"A">>, HeaderContentType} :
                /\ mem' = MapDel(mem, last.held[i].Header, k)
                /\ last' = [last EXCEPT !.op = "Header.Del", !.on = i]
           \/ \* q.Trailer.Add(k, v), of a trailer that is not nil
              /\ last.held[i].Trailer # 0
              /\ mem' = MapAdd(mem, last.held[i].Trailer, <<"A">>, <<"x">>)
              /\ last' = [last EXCEPT !.op = "Trailer.Add", !.on = i]
           \/ \* q.Trailer.Del(k)
              /\ mem' = MapDel(mem, last.held[i].Trailer, <<"A">>)
              /\ last' = [last EXCEPT !.op = "Trailer.Del", !.on = i]
           \/ \* ioutil.ReadAll(q.Body): the reader P holds is the body of
              \* every request made from P, any other body is the request's own
              /\ last.held[i].Body.kind # "nil"
              /\ mem' = mem
              /\ last' = [last EXCEPT
                             !.op = "Body.Read", !.on = i,
                             !.drained = @ \cup {IF last.held[i].Body.kind = "reader"
                                                 THEN 0 ELSE i}]

SpecHeld == InitHeld /\ [][NextHeld]_vars

\* ------------------------------------------------------------------------
\* the specification of concurrent With calls: P built by New, and two
\* goroutines that each call P.With, their steps (the clone, then each
\* option applied) interleaved
\* ------------------------------------------------------------------------

NextConcurrent ==
    \E g \in {"A", "B"} :
        \* go func() { g, err = P.With(opts...) }()
        \/ \E opts \in { <<Arg.AddX>>, <<Arg.AddY>>, <<Arg.Query1>>, <<Arg.Query2>>,
                          <<Arg.UseN>>, <<Arg.PostB, Arg.UseM>>,
                          <<Arg.SetX, Arg.RelBad>> } :
            /\ last.run[g].pc = -1
            /\ \E w \in {WithOpts(mem, cfg["P"], opts)} :
                last' = [last EXCEPT
                           !.op = "go", !.dst = g,
                           !.run[g] = [pc |-> 0, opts |-> opts,
                                       src |-> RequestsView(mem, cfg["P"]),
                                       alone |-> RequestsView(w.h, w.r)]]
            /\ UNCHANGED <<mem, cfg, steps>>
        \* r2 := r.Clone()
        \/ /\ last.run[g].pc = 0
           /\ \E c \in {Clone(mem, cfg["P"])} :
                /\ mem' = c.h
                /\ cfg' = [cfg EXCEPT ![g] = c.r]
           /\ last' = [last EXCEPT !.op = "Clone", !.dst = g, !.run[g].pc = 1]
           /\ UNCHANGED steps
        \* err := o.Apply(r2), for the next option; the result is nil when
        \* it fails
        \/ /\ last.run[g].pc \in 1..Len(last.run[g].opts)
           /\ \E a \in {ApplyOpts(mem, cfg[g], <<last.run[g].opts[last.run[g].pc]>>)} :
                /\ mem' = a.h
                /\ cfg' = [cfg EXCEPT ![g] = IF a.err THEN NoRequests ELSE a.r]
                /\ last' = [last EXCEPT
                              !.op = "Apply", !.dst = g,
                              !.run[g].pc = IF a.err THEN Len(last.run[g].opts) + 1
                                            ELSE @ + 1]
           /\ UNCHANGED steps

SpecConcurrent == Init /\ [][NextConcurrent]_vars

\* ------------------------------------------------------------------------
\* the specification of NewClient: called with up to three options
\* ------------------------------------------------------------------------

NextClient ==
    \E n \in 0..3 :
    \E opts \in [1..n -> { Opt("Timeout", <<>>, <<>>, <<>>),
                           Opt("Transport", <<>>, <<>>, <<>>),
                           Opt("ProxyURL", <<>>, Ref.Base, <<>>),
                           Opt("ProxyURL", <<>>, Ref.Bad, <<>>),
                           Opt("ProxyFunc", <<>>, <<>>, <<>>),
                           Opt("SkipVerify", <<>>, <<>>, <<>>) }] :
        \* c, err := NewClient(opts...)
        /\ steps < MaxSends
        /\ \E a \in {NewClient(opts)} :
            last' = [NoCall EXCEPT !.op = "NewClient", !.opts = opts, !.err = a.err,
                                   !.errAt = a.errAt, !.client = a.c]
        /\ steps' = steps + 1
        /\ UNCHANGED <<mem, cfg>>

SpecClient == InitURL /\ [][NextClient]_vars

\* ------------------------------------------------------------------------
\* properties of clone-and-apply (checked under Spec)
\* ------------------------------------------------------------------------

\* option o returns an error wherever it is applied: a URL or reference that
\* does not parse, a query source that is not a struct
Fails(o) ==
    \/ o.op \in {"URL", "RelativeURL"} /\ Parse(o.v).err
    \/ o.op = "Method" /\ \E i \in 1..Len(o.args) : Parse(o.args[i]).err
    \/ o.op = "QueryParams" /\ \E i \in 1..Len(o.args) : o.args[i].kind = "bad"

\* the place of the first option that fails, 0 when none does
FirstFailure(opts) ==
    IF \E i \in 1..Len(opts) : Fails(opts[i])
    THEN CHOOSE i \in 1..Len(opts) :
            Fails(opts[i]) /\ \A j \in 1..(i - 1) : ~Fails(opts[j])
    ELSE 0

\* the Header, Trailer, URL and QueryParams of r as a reader sees them
FrameView(h, r) ==
    [Header |-> View(h, r.Header), Trailer |-> View(h, r.Trailer), URL |-> r.URL,
     QueryParams |-> View(h, r.QueryParams)]

\* C1: whatever the options and whether or not they succeed, a call of
\* C.With(O...) leaves C's Header, Trailer, URL and QueryParams (the keys and
\* the value list of every key) exactly as they were before the call.
C1_WithLeavesSource ==
    [][last'.op = "With" =>
        FrameView(mem', cfg'[last'.recv]) = FrameView(mem, cfg[last'.recv])]_vars

\* a With on a P that has a URL, headers, a trailer and query parameters,
\* whose options gave the clone headers P does not have
C1_Witness ==
    /\ last.op = "With" /\ last.recv = "P" /\ ~last.err /\ last.log # <<>>
    /\ ~cfg["P"].URL.nil
    /\ View(mem, cfg["P"].Header).keys # {}
    /\ View(mem, cfg["P"].Trailer).keys # {}
    /\ View(mem, cfg["P"].QueryParams).keys # {}
    /\ View(mem, cfg[last.dst].Header) # View(mem, cfg["P"].Header)

\* C2: sibling independence: options applied to one configuration (by Apply,
\* or by the With or Clone that derives it) never change what is observed
\* through any other configuration, the value list under each header and query
\* key and the middleware list included.
C2_SiblingIndependence ==
    [][\A n \in Names :
        (/\ last'.op \in {"Apply", "With", "Clone"}
         /\ cfg[n].alive
         /\ last'.op = "Apply" => n # last'.recv)
        => RequestsView(mem', cfg'[n]) = RequestsView(mem, cfg[n])]_vars

\* A was derived from P with AddHeader("a", "x"), B from P with
\* AddHeader("A", "y"), and A's last value is B's
C2_Aliased ==
    /\ last.op = "With" /\ last.recv = "P" /\ last.dst = "B"
    /\ last.opts = <<Arg.AddY>>
    /\ View(mem, cfg["P"].Header).kv[<<"A">>] = <<<<"x">>, <<"y">>, <<"x">>>>
    /\ View(mem, cfg["A"].Header).kv[<<"A">>] = <<<<"x">>, <<"y">>, <<"x">>, <<"y">>>>
    /\ View(mem, cfg["B"].Header).kv[<<"A">>] = <<<<"x">>, <<"y">>, <<"x">>, <<"y">>>>

\* C3: when an option passed to r.With(opts...) fails, With returns a nil
\* configuration with an error, and every field of r (Method included) is as
\* before the call, even when earlier options succeeded.
C3_WithError ==
    [][(last'.op = "With" /\ \E i \in 1..Len(last'.opts) : Fails(last'.opts[i])) =>
        /\ last'.err
        /\ cfg'[last'.dst] = NoRequests
        /\ cfg'[last'.recv] = cfg[last'.recv]
        /\ RequestsView(mem', cfg'[last'.recv]) = RequestsView(mem, cfg[last'.recv])]_vars

\* a With whose first option succeeded and whose second, a Method with a
\* path that does not parse, failed after setting the clone's Method
C3_Witness ==
    /\ last.op = "With" /\ last.opts = <<Arg.UseN, Arg.PostBad>>
    /\ last.err /\ last.errAt = 2
    /\ ~cfg[last.dst].alive

\* r after the options applied one after the other, up to and including the
\* first that fails
RECURSIVE InOrder(_, _, _)
InOrder(h, r, opts) ==
    IF opts = <<>> THEN [h |-> h, r |-> r]
    ELSE The({IF a.err THEN [h |-> a.h, r |-> a.r]
              ELSE InOrder(a.h, a.r, Tail(opts)) :
                 a \in {ApplyOne(h, r, Head(opts))}})

\* C4: r.Apply(o1,...,on) invokes the options in argument order; when ok is
\* the first to fail, the later ones are not invoked, the error returned is
\* ok's, and the effects of the earlier ones remain; when none fails, no error
\* is returned and r is the result of applying o1..on in order.
C4_ApplyInOrder ==
    [][last'.op = "Apply" =>
        \A k \in {FirstFailure(last'.opts)} :
        \A n \in {IF k = 0 THEN Len(last'.opts) ELSE k} :
        \A e \in {InOrder(mem, cfg[last'.recv], SubSeq(last'.opts, 1, n))} :
           /\ last'.log = [i \in 1..n |-> i]
           /\ last'.err = (k # 0)
           /\ last'.errAt = k
           /\ RequestsView(mem', cfg'[last'.recv]) = RequestsView(e.h, e.r)]_vars

\* an Apply of three options whose second failed: the first took effect (a
\* header value added), the third was not invoked
C4_Witness ==
    /\ last.op = "Apply" /\ last.opts = <<Arg.AddX, Arg.RelBad, Arg.UseM>>
    /\ last.err /\ last.errAt = 2 /\ last.log = <<1, 2>>
    /\ View(mem, cfg[last.recv].Header).kv[<<"A">>] # <<>>
    /\ Read(mem, cfg[last.recv].Middleware) = <<>>

\* the values the sources supply for key k, in source order, up to a source
\* that fails
RECURSIVE SourceValues(_, _)
SourceValues(srcs, k) ==
    IF srcs = <<>> \/ Head(srcs).kind = "bad" THEN <<>>
    ELSE (IF Head(srcs).kind = "values" /\ k \in DOMAIN Head(srcs).kv
          THEN Head(srcs).kv[k] ELSE <<>>)
         \o SourceValues(Tail(srcs), k)

\* the values the QueryParams options among the first n of opts supply for k
RECURSIVE Supplied(_, _, _)
Supplied(opts, n, k) ==
    IF n = 0 THEN <<>>
    ELSE Supplied(opts, n - 1, k)
         \o (IF opts[n].op = "QueryParams" THEN SourceValues(opts[n].args, k)
             ELSE <<>>)

QueryOf(h, r, k) == View(h, r.QueryParams).kv[k]

\* C9: QueryParams merging is purely additive: the value list of each key of
\* a configuration is the concatenation, in option order then source order,
\* of the values its sources supplied; an application appends the values it
\* supplies to the configuration it is applied to and never removes or
\* overwrites a value any configuration already has.
C9_QueryParamsAdditive ==
    [][\A n \in Names, k \in QueryKeys :
        cfg'[n].alive =>
            QueryOf(mem', cfg'[n], k) =
                IF last'.op \in {"Apply", "With"} /\ n = last'.dst
                THEN QueryOf(mem, cfg[last'.recv], k)
                     \o Supplied(last'.opts, Len(last'.log), k)
                ELSE IF last'.op = "Clone" /\ n = last'.dst
                THEN QueryOf(mem, cfg[last'.recv], k)
                ELSE QueryOf(mem, cfg[n], k)]_vars

\* A was derived from P with QueryParams(a=1), B with QueryParams(a=2), and
\* the value A was given is overwritten by B's
C9_Overwritten ==
    /\ last.op = "With" /\ last.recv = "P" /\ last.dst = "B"
    /\ last.opts = <<Arg.Query2>>
    /\ QueryOf(mem, cfg["P"], <<"a">>) = <<<<"1">>, <<"1">>, <<"1">>>>
    /\ QueryOf(mem, cfg["A"], <<"a">>) = <<<<"1">>, <<"1">>, <<"1">>, <<"2">>>>

\* ------------------------------------------------------------------------
\* properties of sends (checked under SpecSend)
\* ------------------------------------------------------------------------

SendOps ==
    {"Request", "RequestContext", "Do", "DoContext", "Receive", "ReceiveContext",
     "ReceiveFull", "ReceiveFullContext"}

\* what r.RequestContext(ctx) returns: the error, and the request as read
LaterRequest(h, r) ==
    The({[err |-> q.err, req |-> RequestView(q.h, q.req)] :
            q \in {RequestContext(h, r, "background", <<>>)}})

\* C5: per-call options do not leak: after a call of RequestContext,
\* DoContext or ReceiveFullContext (or of any of the other methods) with
\* options returns, with or without an error, every field of the receiver
\* reads as before, and a later call without options builds the request it
\* would have built had the earlier call never happened.
C5_NoLeak ==
    [][last'.op \in SendOps =>
        /\ RequestsView(mem', cfg'[last'.recv]) = RequestsView(mem, cfg[last'.recv])
        /\ LaterRequest(mem', cfg'[last'.recv]) = LaterRequest(mem, cfg[last'.recv])]_vars

\* a DoContext with Use(n) on a P that has middleware m: the request went
\* through m and n, and P still has m alone
C5_Witness ==
    /\ last.op = "DoContext" /\ last.opts = <<Arg.UseN>> /\ last.sent
    /\ last.reqs.Middleware = <<<<"m">>, <<"n">>>>
    /\ Read(mem, cfg["P"].Middleware) = <<<<"m">>>>

\* the request of r.With(opts...) followed by the method without options
WithThenSend(h, r, opts) ==
    The({IF w.err THEN [err |-> TRUE, req |-> RequestView(EmptyMem, NoRequest)]
         ELSE LaterRequest(w.h, w.r) :
            w \in {WithOpts(h, r, opts)}})

\* C6: for each of Request, RequestContext, Do, DoContext, Receive,
\* ReceiveContext, ReceiveFull and ReceiveFullContext, the options passed to
\* the call are applied to the request the call builds or sends: the request
\* is the one r.With(opts...) followed by the same method without options
\* produces.
C6_OptionsApplied ==
    [][last'.op \in SendOps =>
        \A e \in {WithThenSend(mem, cfg[last'.recv], last'.opts)} :
           /\ last'.req = e.req
           /\ e.err => last'.err]_vars

\* the same, of the five methods that pass their options on
C6_PassedOn ==
    [][last'.op \in SendOps \ {"Request", "Do", "ReceiveContext"} =>
        \A e \in {WithThenSend(mem, cfg[last'.recv], last'.opts)} :
           /\ last'.req = e.req
           /\ e.err => last'.err]_vars

\* r.Request(AddHeader("a", "x")) on a P without headers returned a request
\* without headers
C6_Dropped ==
    /\ last.op = "Request" /\ last.opts = <<Arg.AddX>> /\ ~last.err
    /\ View(mem, cfg["P"].Header).keys = {}
    /\ last.req.Header.keys = {}

\* C10: at materialization, when the QueryParams are not empty, the raw
\* query of the request URL is the URL's raw query as it was, then "&" and
\* the encoded QueryParams, or the encoded QueryParams alone when the URL had
\* no query; when the QueryParams are empty the raw query is unchanged.
C10_RawQueryAppended ==
    [][(last'.op \in SendOps /\ ~last'.req.nil) =>
        LET raw == IF last'.reqs.URL.nil THEN <<>> ELSE last'.reqs.URL.RawQuery
            qp  == last'.reqs.QueryParams
            got == last'.req.URL.RawQuery
        IN IF qp.keys = {} THEN got = raw
           ELSE IF raw # <<>> THEN got = raw \o <<"&">> \o Encode(qp)
           ELSE got = Encode(qp)]_vars

\* the URL //a/b?b=1 with QueryParams a=1, and a=2 added for the call: the
\* request has b=1&a=1&a=2
C10_Witness ==
    /\ last.op = "RequestContext" /\ last.opts = <<Arg.Query2>> /\ ~last.err
    /\ cfg["P"].URL.RawQuery = <<"b", "=", "1">>
    /\ last.req.URL.RawQuery =
          <<"b", "=", "1", "&", "a", "=", "1", "&", "a", "=", "2">>

\* ------------------------------------------------------------------------
\* properties of RelativeURL (checked under SpecURL)
\* ------------------------------------------------------------------------

\* path s has a segment "." or ".."
DotSegment(s) ==
    \E i \in 1..Len(s), j \in 1..Len(s) :
        /\ i <= j
        /\ SubSeq(s, i, j) \in {<<".">>, <<".", ".">>}
        /\ i = 1 \/ s[i - 1] = "/"
        /\ j = Len(s) \/ s[j + 1] = "/"

\* the path up to and including its last "/"; an empty path counts as "/"
Dir(path) ==
    IF path = <<>> THEN <<"/">> ELSE SubSeq(path, 1, LastIndexByte(path, "/"))

\* B+P, B's last path segment dropped when B's path does not end in "/"
Joined(B, p) == URLString([B EXCEPT !.Path = Dir(B.Path)]) \o p

\* a relative path without a leading "/": no scheme, query or fragment
RelativePath(p) ==
    /\ p = <<>> \/ p[1] # "/"
    /\ \A i \in 1..Len(p) : p[i] \notin {":", "?", "#"}

\* a relative path that is not empty and has no "." or ".." segment
PlainPath(p) == p # <<>> /\ RelativePath(p) /\ ~DotSegment(p)

\* a base with a rooted path: no opaque part, query or fragment, no "." or
\* ".." segment, and a host, or neither a scheme nor a host before a path
\* that starts with "/"
PlainBase(B) ==
    /\ ~B.nil /\ B.Opaque = <<>>
    /\ B.RawQuery = <<>> /\ ~B.ForceQuery /\ B.Fragment = <<>>
    /\ ~DotSegment(B.Path)
    /\ B.Host # <<>> \/ (B.Scheme = <<>> /\ HasPrefix(B.Path, <<"/">>))

\* the step is c.Apply(RelativeURL(p)) on a c that has a URL
ExtendStep(c) ==
    /\ last'.op = "Apply" /\ last'.recv = c
    /\ last'.opts[1].op = "RelativeURL"
    /\ ~cfg[c].URL.nil

\* C7 as stated: for every base URL B and every relative path P without a
\* leading "/", RelativeURL(P) yields B+P when B's path ends in "/", and B
\* with its last path segment replaced by P when it does not (an empty path
\* behaving as "/").
C7_JoinAnyBaseAnyPath ==
    [][\A c \in {"P", "A"} :
        (ExtendStep(c) /\ RelativePath(last'.opts[1].v)) =>
            /\ ~last'.err
            /\ URLString(cfg'[c].URL) = Joined(cfg[c].URL, last'.opts[1].v)]_vars

\* C7, amended: for every base URL B that has a rooted path without "." or
\* ".." segments, no query and no fragment, and every relative path P that is
\* not empty, has no leading "/" and no "." or ".." segment, RelativeURL(P)
\* yields B+P when B's path ends in "/", and B with its last path segment
\* replaced by P when it does not (an empty path behaving as "/").
C7_JoinPlain ==
    [][\A c \in {"P", "A"} :
        (/\ ExtendStep(c)
         /\ PlainBase(cfg[c].URL)
         /\ PlainPath(last'.opts[1].v)) =>
            /\ ~last'.err
            /\ URLString(cfg'[c].URL) = Joined(cfg[c].URL, last'.opts[1].v)]_vars

\* //a/b extended by b/ and then by a: the last segment b replaced by b/,
\* then a appended after the "/"
C7_Witness ==
    /\ steps = 2 /\ last.op = "Apply" /\ last.recv = "P"
    /\ last.opts = <<Extend(<<"a">>)>>
    /\ cfg["A"].URL.Path = <<"/", "b", "/">>
    /\ URLString(cfg["P"].URL) = <<"/", "/", "a", "/", "b", "/", "a">>

\* C8: on a configuration without a URL, RelativeURL(p) sets the URL to the
\* parsed p, as URL(p) does; so P, given RelativeURL(a), RelativeURL(b),
\* RelativeURL(c), has the URL of A, given URL(a), RelativeURL(b),
\* RelativeURL(c); and a reference with a scheme replaces the accumulated URL
\* entirely: the result is the reference resolved against no base at all (its
\* "." and ".." segments resolved), with nothing of the URL it replaces, and
\* for a reference with a host or an opaque part and without such segments
\* it prints as the reference.
C8_AdoptAndReplace ==
    [][/\ \A c \in {"P", "A"} :
            (/\ last'.op = "Apply" /\ last'.recv = c
             /\ last'.opts[1].op = "RelativeURL"
             /\ cfg[c].URL.nil) =>
                LET pr == Parse(last'.opts[1].v)
                IN /\ last'.err = pr.err
                   /\ cfg'[c].URL = IF pr.err THEN NilURL ELSE pr.u
                   /\ cfg'[c] = ApplyURL(cfg[c], last'.opts[1].v).r
       /\ (last'.op = "Apply" /\ last'.recv = "A") => cfg'["A"].URL = cfg'["P"].URL
       /\ \A c \in {"P", "A"} :
            (/\ ExtendStep(c)
             /\ ~Parse(last'.opts[1].v).err
             /\ Parse(last'.opts[1].v).u.Scheme # <<>>) =>
                LET ref == Parse(last'.opts[1].v).u
                IN /\ cfg'[c].URL = ResolveReference(EmptyURL, ref)
                   /\ (~DotSegment(ref.Path) /\ (ref.Host # <<>> \/ ref.Opaque # <<>>))
                        => URLString(cfg'[c].URL) = last'.opts[1].v]_vars

\* three references given to P by RelativeURL and to A by URL, RelativeURL,
\* RelativeURL, the third with a scheme: both have the third alone
C8_Witness ==
    /\ steps = 3 /\ last.op = "Apply" /\ last.recv = "A"
    /\ last.opts = <<Extend(<<"a", ":", "/", "/", "b", "/", "a", "/">>)>>
    /\ cfg["P"].URL = cfg["A"].URL
    /\ URLString(cfg["A"].URL) = <<"a", ":", "/", "/", "b", "/", "a", "/">>

\* ------------------------------------------------------------------------
\* claims about headers and materialization
\* ------------------------------------------------------------------------

\* the key in lower case
Fold(k) == [i \in 1..Len(k) |-> ToLower(k[i])]

\* a key made of token bytes, as a header field name is
ValidKey(k) == \A i \in 1..Len(k) : k[i] \notin Separators

\* upper case at the start and after "-" only
CanonicalForm(k) ==
    \A i \in 1..Len(k) :
        IF i = 1 \/ k[i - 1] = "-" THEN k[i] = ToUpper(k[i]) ELSE k[i] = ToLower(k[i])

\* the value lists header v holds under the keys equal to k ignoring case
Held(v, k) == {v.kv[j] : j \in {j \in v.keys : Fold(j) = Fold(k)}}

\* the value lists of Held with value x appended (to nothing, when none)
Appended(held, x) == {vs \o <<x>> : vs \in IF held = {} THEN {<<>>} ELSE held}

\* C11 as stated: after any sequence of AddHeader, Header, DeleteHeader,
\* BasicAuth and BearerAuth options applied to an empty configuration no two
\* keys of Header are equal ignoring case and every key is in canonical form;
\* AddHeader(k, v) appends v to the values of k and Header(k, v) replaces
\* the values of k by v alone.
C11_AnyKeyCanonical ==
    [][\A o \in {last'.opts[1]} :
       \A v0 \in {View(mem, cfg["P"].Header)} :
       \A v1 \in {View(mem', cfg'["P"].Header)} :
        /\ \A j \in v1.keys : CanonicalForm(j)
        /\ \A j \in v1.keys : \A k \in v1.keys : Fold(j) = Fold(k) => j = k
        /\ o.op = "AddHeader" => Held(v1, o.k) = Appended(Held(v0, o.k), o.v)
        /\ o.op = "Header" => Held(v1, o.k) = {<<o.v>>}]_vars

\* C11 as amended: the same of the keys that are valid header field names:
\* no two such keys of Header are equal ignoring case and each is in
\* canonical form; AddHeader(k, v) with such a k appends v to the values
\* held under k, whatever the case k was given in, and Header(k, v)
\* replaces them by v alone.
C11_ValidKeyCanonical ==
    [][\A o \in {last'.opts[1]} :
       \A v0 \in {View(mem, cfg["P"].Header)} :
       \A v1 \in {View(mem', cfg'["P"].Header)} :
        /\ \A j \in v1.keys : ValidKey(j) => CanonicalForm(j)
        /\ \A j \in v1.keys : \A k \in v1.keys :
              (ValidKey(j) /\ Fold(j) = Fold(k)) => j = k
        /\ (o.op = "AddHeader" /\ ValidKey(o.k)) =>
              Held(v1, o.k) = Appended(Held(v0, o.k), o.v)
        /\ (o.op = "Header" /\ ValidKey(o.k)) => Held(v1, o.k) = {<<o.v>>}]_vars

\* AddHeader("A", "y") has appended to what AddHeader("a", "x") stored, and
\* nothing else is in the header
C11_Witness ==
    /\ last.op = "Apply" /\ last.opts = <<Arg.AddY>>
    /\ \A v \in {View(mem, cfg["P"].Header)} :
        v.keys = {<<"A">>} /\ v.kv[<<"A">>] = << <<"x">>, <<"y">> >>

\* the values the Content-Type key holds in header view v (none: <<>>)
ContentTypeOf(v) == IF HeaderContentType \in v.keys THEN v.kv[HeaderContentType] ELSE <<>>

\* the marshaler of configuration view r: the configured one, else JSON
EffectiveMarshaler(r) == IF r.Marshaler = "nil" THEN "json" ELSE r.Marshaler

\* a body that is sent without marshaling
RawBody(b) == b.kind \in {"reader", "string", "bytes"}

\* the last call is RequestContext and its options applied
Materializing == last.op = "RequestContext" /\ last.reqs.alive

\* C12: a nil Body yields a request without body; a reader, string or byte
\* slice is sent as it is, no marshaler is called and no Content-Type is
\* inferred; any other value goes to the configured Marshaler, or to the
\* JSON marshaler when none is configured, and the request body is exactly
\* the bytes that marshaler returned.
C12_BodyPrecedence ==
    Materializing =>
        \A r \in {last.reqs} : \A q \in {last.req} :
            /\ r.Body.kind = "nil" =>
                  /\ last.by = "none"
                  /\ ~last.err => q.Body = NilBody
            /\ RawBody(r.Body) =>
                  /\ last.by = "none"
                  /\ ~last.err =>
                        /\ q.Body.val = r.Body.val
                        /\ r.Body.kind = "reader" => q.Body = r.Body
                        /\ ContentTypeOf(q.Header) = ContentTypeOf(r.Header)
            /\ (r.Body.kind # "nil" /\ ~RawBody(r.Body)) =>
                  /\ last.by = EffectiveMarshaler(r)
                  /\ ~last.err => q.Body.val = <<EffectiveMarshaler(r)>> \o r.Body.val

\* a struct given to the call was marshaled by the JSON marshaler, none being
\* configured, where P itself holds a string
C12_Witness ==
    /\ Materializing /\ ~last.err
    /\ last.reqs.Body.kind = "struct" /\ last.reqs.Marshaler = "nil"
    /\ last.by = "json" /\ last.req.Body.val = <<"json", "v">>
    /\ last.opts = <<Arg.SetStruct>>
    /\ cfg["P"].Body.kind = "string"

\* C13: when the configuration has a Content-Type header and the body is
\* marshaled, the request's Content-Type holds exactly the configuration's
\* values; the marshaler's content type is on the request only when the
\* configuration has no Content-Type header.
C13_CallerContentTypeWins ==
    (Materializing /\ ~last.err /\ last.by # "none") =>
        \A r \in {last.reqs} : \A q \in {last.req} :
        \A ct \in {Marshal(last.by, r.Body.val).ct} :
            /\ HeaderContentType \in r.Header.keys =>
                  /\ ContentTypeOf(q.Header) = ContentTypeOf(r.Header)
                  /\ \A i \in 1..Len(ContentTypeOf(q.Header)) :
                        ContentTypeOf(q.Header)[i] # <<ct>>
            /\ HeaderContentType \notin r.Header.keys =>
                  ContentTypeOf(q.Header) = IF ct = "" THEN <<>> ELSE << <<ct>> >>

\* a struct marshaled as JSON went out under the two Content-Type values of
\* the configuration
C13_Witness ==
    /\ Materializing /\ ~last.err /\ last.by = "json"
    /\ ContentTypeOf(last.reqs.Header) = << <<"t">>, <<"u">> >>
    /\ ContentTypeOf(last.req.Header) = << <<"t">>, <<"u">> >>

\* C14: the request's ContentLength is the length of the string, byte-slice
\* or marshaled body when the configuration's ContentLength is 0, and is
\* the configuration's ContentLength whenever that is not 0, whatever the
\* body.
C14_ContentLength ==
    (Materializing /\ ~last.err) =>
        \A r \in {last.reqs} : \A q \in {last.req} :
            /\ r.ContentLength # 0 => q.ContentLength = r.ContentLength
            /\ (r.ContentLength = 0 /\ r.Body.kind \in {"string", "bytes"}) =>
                  q.ContentLength = Len(r.Body.val)
            /\ (r.ContentLength = 0 /\ last.by # "none") =>
                  q.ContentLength = Len(Marshal(last.by, r.Body.val).data)

\* the two-byte string went out under the ContentLength 7 of the configuration
C14_Witness ==
    /\ Materializing /\ ~last.err
    /\ last.reqs.Body = [kind |-> "string", val |-> <<"h", "i">>]
    /\ last.reqs.ContentLength = 7 /\ last.req.ContentLength = 7

\* configuration view r cannot be made into a request: its method is no
\* token, or its body is one that its marshaler fails on
MaterializationFails(r) ==
    \/ \E i \in 1..Len(r.Method) : r.Method[i] \in Separators
    \/ /\ r.Body.kind # "nil" /\ ~RawBody(r.Body)
       /\ Marshal(EffectiveMarshaler(r), r.Body.val).err

\* C15: if materialization fails (the method is no legal token, or the
\* marshaler returns an error), RequestContext returns no request and the
\* error, and DoContext and ReceiveFullContext return the error without the
\* Doer or any middleware having been called: no request is sent.
C15_NothingSentOnFailure ==
    (/\ last.op \in {"RequestContext", "DoContext", "ReceiveFullContext"}
     /\ last.reqs.alive /\ MaterializationFails(last.reqs)) =>
        /\ last.err /\ last.req.nil
        /\ ~last.sent /\ last.resp.nil
        /\ last.out.respNil /\ last.out.reads = 0 /\ last.out.target = "none"

\* ReceiveFullContext with Use(m) and a method that is no token returned an
\* error, and nothing was sent
C15_Witness ==
    /\ last.op = "ReceiveFullContext" /\ last.opts = <<Arg.UseM, Arg.SetBadMethod>>
    /\ last.reqs.alive /\ last.reqs.Middleware = << <<"m">> >>
    /\ last.err /\ ~last.sent

\* the method the last method-setting option of opts sets, m0 when none does
RECURSIVE MethodAfter(_, _)
MethodAfter(opts, m0) ==
    IF opts = <<>> THEN m0
    ELSE IF opts[Len(opts)].op = "Method" THEN opts[Len(opts)].v
    ELSE MethodAfter(SubSeq(opts, 1, Len(opts) - 1), m0)

\* C16: the method of the request is the one set by the last method-setting
\* option applied to the configuration, by New or for the call, and is GET
\* when none was set.
C16_LastMethodWins ==
    /\ (last.op = "New" /\ ~last.err) => cfg["P"].Method = MethodAfter(last.opts, <<>>)
    /\ (Materializing /\ ~last.err) =>
          \A m \in {MethodAfter(last.opts, cfg["P"].Method)} :
              last.req.Method = IF m = <<>> THEN GET ELSE m

\* P built with Post then Get, the call given Get then Delete: the request
\* is a DELETE
C16_Witness ==
    /\ Materializing /\ ~last.err
    /\ last.opts = <<Arg.Get, Arg.Delete>> /\ cfg["P"].Method = GET
    /\ last.req.Method = <<"D", "E", "L", "E", "T", "E">>

\* ------------------------------------------------------------------------
\* claims about sending and receiving
\* ------------------------------------------------------------------------

\* the middleware the Use options of opts register, in their order
RECURSIVE Used(_)
Used(opts) ==
    IF opts = <<>> THEN <<>>
    ELSE (IF Head(opts).op = "Use" THEN Head(opts).args ELSE <<>>) \o Used(Tail(opts))

\* the methods that send and pass their options on
SendsWithOptions == {"DoContext", "Receive", "ReceiveFull", "ReceiveFullContext"}

\* C17: with the Middleware list m1..mn, in the order Use registered them, a
\* send lets m1 see the request first, then m2, ..., mn, then the Doer, and
\* the response is seen in the reverse order, by m1 last.
C17_MiddlewareOrder ==
    last.sent =>
        \A m \in {last.reqs.Middleware} : \A t \in {last.trace} :
        \A n \in {Len(last.reqs.Middleware)} :
            /\ last.op \in SendsWithOptions =>
                  m = Read(mem, cfg["P"].Middleware) \o Used(last.opts)
            /\ Len(t) = 2 * n + 2
            /\ \A i \in 1..n :
                  /\ t[i] = [at |-> m[i], saw |-> "request"]
                  /\ t[2 * n + 3 - i] = [at |-> m[i], saw |-> "response"]
            /\ \A d \in {IF last.reqs.Doer = "nil" THEN "http.DefaultClient"
                          ELSE last.reqs.Doer} :
                  /\ t[n + 1] = [at |-> d, saw |-> "request"]
                  /\ t[n + 2] = [at |-> d, saw |-> "response"]

\* DoContext with Use(n) on a P that has m: m saw the request, then n, then
\* the Doer, and the response went back through n to m
C17_Witness ==
    /\ last.op = "DoContext" /\ last.sent /\ last.opts = <<Arg.UseN>>
    /\ Read(mem, cfg["P"].Middleware) = << <<"m">> >>
    /\ last.trace = <<[at |-> <<"m">>, saw |-> "request"],
                      [at |-> <<"n">>, saw |-> "request"],
                      [at |-> "http.DefaultClient", saw |-> "request"],
                      [at |-> "http.DefaultClient", saw |-> "response"],
                      [at |-> <<"n">>, saw |-> "response"],
                      [at |-> <<"m">>, saw |-> "response"]>>

\* the last call is ReceiveFullContext (or ReceiveFull, which is the same
\* without a context) and it read a response
Received ==
    /\ last.op \in {"ReceiveFullContext", "ReceiveFull"}
    /\ last.sent /\ ~last.resp.nil /\ ~last.resp.readErr

\* the status is one of 200..299
Success(code) == 200 <= code /\ code <= 299

\* the target the status of the last response selects
Selected ==
    IF Success(last.resp.StatusCode) THEN last.targets[1] ELSE last.targets[2]

\* C18: ReceiveFullContext decodes into successV exactly when the status is
\* in 200..299 and into failureV for every other status; when the target
\* so selected is nil no unmarshaler is called, nothing is decoded into the
\* other target, the error is nil and the whole body is returned.
C18_TargetByStatus ==
    Received =>
        \A v \in {IF Success(last.resp.StatusCode) THEN last.targets[1]
                   ELSE last.targets[2]} :
            /\ v # "nil" =>
                  /\ last.out.target = IF Success(last.resp.StatusCode) THEN "success"
                                       ELSE "failure"
                  /\ last.out.unmarshaler # "none"
            /\ v = "nil" =>
                  /\ last.out.target = "none" /\ last.out.unmarshaler = "none"
                  /\ ~last.err /\ ~last.out.err
                  /\ ~last.out.respNil /\ last.out.body = last.resp.body

\* a 300 with a success target and no failure target: nothing decoded, no
\* error, the body returned
C18_Witness ==
    /\ Received /\ last.resp.StatusCode = 300 /\ last.targets = <<"ptr", "nil">>
    /\ last.out.target = "none" /\ ~last.err /\ last.out.body = "junk"

\* C19: when decoding the response fails in ReceiveFullContext (the
\* unmarshaler returns an error, or the content type is not supported), the
\* call returns the error, the response and the whole body that was read.
C19_DecodeErrorKeepsBody ==
    (/\ Received /\ last.out.unmarshaler # "none"
     /\ UnmarshalErr(last.out.unmarshaler, last.resp.body, last.resp.ContentType,
                     Selected)) =>
        /\ last.err /\ last.out.err
        /\ ~last.out.respNil /\ last.out.body = last.resp.body

\* a 206 without content type decoded by the default unmarshaler: the error,
\* and the body "json" beside it
C19_Witness ==
    /\ Received /\ last.resp.StatusCode = 206 /\ last.resp.ContentType = ""
    /\ last.out.unmarshaler = "default" /\ last.out.target = "success"
    /\ last.err /\ last.out.body = "json"

\* the Receive methods
Receives == {"Receive", "ReceiveContext", "ReceiveFull", "ReceiveFullContext"}

C21_RawStringTarget ==
    (Received /\ Selected = "str") =>
        /\ last.out.unmarshaler = "none"
        /\ ~last.err

\* a 206 without content type received into a string: the default
\* unmarshaler is called and refuses the content type
C21_Unmarshaled ==
    /\ Received /\ last.resp.StatusCode = 206 /\ last.resp.ContentType = ""
    /\ Selected = "str" /\ last.out.unmarshaler = "default" /\ last.err

\* the last call received a response into a struct with the default
\* unmarshaler: none configured and none among the options
ReceivedByDefault ==
    /\ Received /\ Selected = "ptr"
    /\ last.opts = <<>> /\ last.reqs.Unmarshaler = "nil"

\* C22: the default unmarshaler chooses its codec by the content type of the
\* response, JSON when it contains the JSON type, else XML when it contains
\* the XML type, and fails for every other content type, the empty one
\* included; so a Receive call with a target and no Unmarshaler configured
\* fails on such a response.
C22_DefaultUnmarshaler ==
    ReceivedByDefault =>
        /\ last.out.unmarshaler = "default"
        /\ (~IsJSON(last.resp.ContentType) /\ ~IsXML(last.resp.ContentType)) =>
              last.err
        /\ IsJSON(last.resp.ContentType) => (last.err <=> last.resp.body # "json")
        /\ (IsXML(last.resp.ContentType) /\ ~IsJSON(last.resp.ContentType)) =>
              (last.err <=> last.resp.body # "xml")

\* a 404 of content type text/plain received into a failure target: the
\* error of the default unmarshaler, and the body beside it
C22_Witness ==
    /\ ReceivedByDefault /\ last.resp.ContentType = "text/plain"
    /\ last.out.unmarshaler = "default" /\ last.err /\ last.out.body = "junk"

\* ------------------------------------------------------------------------
\* claims about contexts and the package-level functions
\* ------------------------------------------------------------------------

\* the package-level functions that send
PackageSends == {"sling.DoContext", "sling.ReceiveContext", "sling.ReceiveFullContext"}

\* the calls that build a request and do not send it, and the calls that
\* are given a context
Builds == {"RequestContext", "sling.RequestContext"}

TakesContext ==
    PackageSends \cup Builds
    \cup {"DoContext", "ReceiveContext", "ReceiveFullContext"}

\* C23: the context given to RequestContext, DoContext, ReceiveContext or
\* ReceiveFullContext, method or package-level function, is the context of
\* the request made, which is the request every middleware and the Doer are
\* handed.
C23_ContextCarried ==
    (last.op \in TakesContext /\ ~last.req.nil) =>
        /\ last.req.ctx = last.ctx
        /\ last.op \notin Builds =>
              /\ last.sent
              /\ \E i \in 1..Len(last.trace) :
                    last.trace[i].at = (IF last.reqs.Doer = "nil"
                                        THEN "http.DefaultClient" ELSE last.reqs.Doer)

\* the package-level ReceiveFullContext given the context c2 and two
\* middleware: the request sent carries c2 through both to the Doer
C23_Witness ==
    /\ last.op = "sling.ReceiveFullContext" /\ last.ctx = "c2" /\ last.sent
    /\ last.req.ctx = "c2" /\ Len(last.trace) >= 6

\* C29: each option given to the package-level DoContext, ReceiveContext or
\* ReceiveFullContext is applied once: the request sent, and the layers it
\* is sent through, are those of New(opts...) followed by the send without
\* options.
C29_AppliedOnce ==
    (last.op \in PackageSends /\ last.sent) =>
        \A n \in {ApplyOpts(mem, ZeroRequests, last.opts)} :
        \A q \in {RequestContext(n.h, n.r, last.ctx, <<>>)} :
            /\ last.req = RequestView(q.h, q.req)
            /\ last.trace = SendTrace(n.h, n.r)

\* the package-level DoContext given Use(m), Use(n): the request passes m,
\* n, m, n before the Doer
C29_AppliedTwice ==
    /\ last.op = "sling.DoContext" /\ last.sent
    /\ last.opts = <<Arg.UseM, Arg.UseN>>
    /\ Len(last.trace) = 10
    /\ \A i \in 1..4 : last.trace[i].at = (IF i \in {1, 3} THEN <<"m">> ELSE <<"n">>)

\* ------------------------------------------------------------------------
\* claims about the requests made from one configuration
\* ------------------------------------------------------------------------

\* what is left to read of the body of the i-th request held, in the state
\* with the record l of the last call
Unread(l, i) ==
    IF (IF l.held[i].Body.kind = "reader" THEN 0 ELSE i) \in l.drained THEN <<>>
    ELSE l.held[i].Body.val

\* the i-th request held as its holder sees it, in the state with memory h
\* and the record l
Seen(h, l, i) ==
    [req |-> RequestView(h, l.held[i]), unread |-> Unread(l, i)]

\* the header, trailer and body of P as their reader sees them
SeenOfP(h, l) ==
    [Header |-> View(h, cfg["P"].Header), Trailer |-> View(h, cfg["P"].Trailer),
     Body |-> cfg["P"].Body,
     unread |-> IF cfg["P"].Body.kind = "reader" /\ 0 \in l.drained THEN <<>>
                ELSE cfg["P"].Body.val]

Edits == {"Header.Add", "Header.Del", "Trailer.Add", "Trailer.Del", "Body.Read"}

\* C24: two requests made by RequestContext from the same, unchanged
\* configuration have the same method, URL, header, trailer and body, and
\* adding to or deleting from the header or the trailer of one of them, or
\* reading its body, changes neither the header, trailer and body of the
\* configuration nor what is seen of the other request.
C24_RequestsIndependent ==
    [][/\ (last'.op = "RequestContext" /\ last'.on = 2) =>
             Seen(mem', last', 1) = Seen(mem', last', 2)
       /\ last'.op \in Edits =>
             /\ SeenOfP(mem', last') = SeenOfP(mem, last)
             /\ \A j \in 1..2 :
                   j # last'.on => Seen(mem', last', j) = Seen(mem, last, j)]_vars

\* the first request added to its trailer, and the trailer of P and of the
\* second request have the value
C24_TrailerShared ==
    /\ last.op = "Trailer.Add" /\ last.on = 1 /\ steps = 1
    /\ View(mem, cfg["P"].Trailer).kv[<<"A">>] = << <<"t">>, <<"x">> >>
    /\ Seen(mem, last, 2).req.Trailer.kv[<<"A">>] = << <<"t">>, <<"x">> >>

\* ------------------------------------------------------------------------
\* claims about concurrent With calls
\* ------------------------------------------------------------------------

\* the With call of goroutine g has returned
Returned(g) == last.run[g].pc = Len(last.run[g].opts) + 1

\* C25: With calls running concurrently on one configuration, however their
\* steps interleave, write nothing that the source or the result of another
\* call reads: the result of each call is what the call alone returns, and
\* the source reads as it did.
C25_ConcurrentWith ==
    \A g \in {"A", "B"} :
        /\ last.run[g].pc >= 0 => RequestsView(mem, cfg["P"]) = last.run[g].src
        /\ Returned(g) => RequestsView(mem, cfg[g]) = last.run[g].alone

\* both calls have returned, A was given AddHeader("a", "x"), and the header
\* A holds ends in the y that B was given
C25_Overwritten ==
    /\ Returned("A") /\ Returned("B") /\ last.run["A"].opts = <<Arg.AddX>>
    /\ last.run["A"].alone.Header.kv[<<"A">>] = << <<"x">>, <<"y">>, <<"x">>, <<"x">> >>
    /\ RequestsView(mem, cfg["A"]).Header.kv[<<"A">>]
           = << <<"x">>, <<"y">>, <<"x">>, <<"y">> >>

\* ------------------------------------------------------------------------
\* claims about the sender
\* ------------------------------------------------------------------------

\* the Doer of the last send: http.DefaultClient when none is configured
DoerOf == IF last.reqs.Doer = "nil" THEN "http.DefaultClient" ELSE last.reqs.Doer

BadRefs == {<<"1", ":">>, <<":", "a">>}

\* the option sets or extends the URL and is given a string that is no URL
\* reference
GivenBadRef(o) ==
    \/ o.op \in {"URL", "RelativeURL"} /\ o.v \in BadRefs
    \/ o.op = "Method" /\ Len(o.args) = 1 /\ o.args[1] \in BadRefs

RECURSIVE UnmarshalerOf(_)
UnmarshalerOf(opts) ==
    IF opts = <<>> THEN "nil"
    ELSE IF opts[Len(opts)].op = "Unmarshaler" THEN opts[Len(opts)].x
    ELSE UnmarshalerOf(SubSeq(opts, 1, Len(opts) - 1))

\* C28: an Unmarshaler given as an option to Receive, ReceiveFull or
\* ReceiveFullContext decodes the response of that call; the Unmarshaler of
\* the configuration, or the default one, decodes it only when the call is
\* given none.
C28_CallUnmarshaler ==
    (Received /\ Selected # "nil") =>
        last.out.unmarshaler =
            IF UnmarshalerOf(last.opts) # "nil" THEN UnmarshalerOf(last.opts)
            ELSE IF cfg["P"].Unmarshaler # "nil" THEN cfg["P"].Unmarshaler
            ELSE "default"

\* ReceiveFullContext given the JSON unmarshaler and answered with a JSON
\* body without content type: the default unmarshaler is called and refuses
C28_OptionIgnored ==
    /\ Received /\ last.op = "ReceiveFullContext" /\ Selected = "ptr"
    /\ last.opts = <<Arg.SetUnmarshaler>> /\ last.reqs.Unmarshaler = "json"
    /\ last.resp.ContentType = "" /\ last.resp.body = "json"
    /\ last.out.unmarshaler = "default" /\ last.err

\* ------------------------------------------------------------------------
\* claims about NewClient
\* ------------------------------------------------------------------------

\* the first option among opts that fails, 0 when none does: ProxyURL given
\* a string that is no URL
FirstBad(opts) ==
    IF \E i \in 1..Len(opts) : opts[i].op = "ProxyURL" /\ opts[i].v \in BadRefs
    THEN CHOOSE i \in 1..Len(opts) :
            /\ opts[i].op = "ProxyURL" /\ opts[i].v \in BadRefs
            /\ \A j \in 1..(i - 1) : ~(opts[j].op = "ProxyURL" /\ opts[j].v \in BadRefs)
    ELSE 0

\* the last option among opts that sets the proxy, 0 when none does
LastProxy(opts) ==
    IF \E i \in 1..Len(opts) : opts[i].op \in {"ProxyURL", "ProxyFunc"}
    THEN CHOOSE i \in 1..Len(opts) :
            /\ opts[i].op \in {"ProxyURL", "ProxyFunc"}
            /\ \A j \in (i + 1)..Len(opts) : opts[j].op \notin {"ProxyURL", "ProxyFunc"}
    ELSE 0

\* C30: the client NewClient returns has the transport an option set, when
\* one did, and otherwise the transport NewClient built, with the proxy of
\* the last ProxyURL or ProxyFunc and without verification when SkipVerify
\* was given; when an option fails NewClient returns a nil client and the
\* error, and applies no later option.
C30_ClientTransport ==
    last.op = "NewClient" =>
        IF FirstBad(last.opts) # 0
        THEN /\ last.err /\ last.client.nil
             /\ last.errAt = FirstBad(last.opts)
        ELSE /\ ~last.err /\ ~last.client.nil
             /\ IF \E i \in 1..Len(last.opts) : last.opts[i].op = "Transport"
                THEN last.client.Transport.kind = "custom"
                ELSE /\ last.client.Transport.kind = "built"
                     /\ last.client.Transport.Proxy.by =
                            (IF LastProxy(last.opts) = 0 THEN "ProxyFromEnvironment"
                             ELSE last.opts[LastProxy(last.opts)].op)
                     /\ last.client.Transport.TLSClientConfig.InsecureSkipVerify
                            = (\E i \in 1..Len(last.opts) :
                                  last.opts[i].op = "SkipVerify")

\* NewClient(SkipVerify()): a client without transport, which sends through
\* http.DefaultTransport
C30_TransportDropped ==
    /\ last.op = "NewClient" /\ ~last.err /\ ~last.client.nil
    /\ last.opts = << Opt("SkipVerify", <<>>, <<>>, <<>>) >>
    /\ last.client.Transport.kind = "nil"

====
